---- MODULE Spec2Model ----
(***************************************************************************)
(* Matching and recommendation engine of the intelligent matchmaking      *)
(* system: the pairwise compatibility scorer, the candidate search of     *)
(* MatchmakingService, the k-NN similarity index of RecommendationModel   *)
(* and the two MLService facades with their rule-based fallback.          *)
(*                                                                         *)
(* Scores are floats in the source.  Here a component score x is the      *)
(* integer x * UNIT and an overall score is the integer x * UNIT * 100    *)
(* (weights are kept in hundredths), so that every set-based score of the *)
(* bounded profiles is represented exactly.                               *)
(***************************************************************************)
EXTENDS Integers, Sequences, FiniteSets, TLC

VARIABLES
    users,   \* the users collection (documents in natural order); the inputs of a call
    fp,      \* ml package: the global feedback_predictor
    em,      \* ml package: the global expert_matching_model
    catalog, \* the candidate documents a caller passes in that are not users (resources, experts)
    resp,    \* the value returned by the last operation, with the path it took
    rm,                \* ml package: MLService.recommendation_model
    model_status,      \* ml package: MLService.model_status["recommendation_model"]
    topic_trained,     \* ml package: topic_model.is_trained
    brm,               \* backend: ml_service.recommendation_model
    user_recommender,  \* backend: ml_service.user_recommender
    matches_collection,  \* backend: the matches collection (match and study-group documents)
    requests,          \* backend: the request each client connection has in flight
    service            \* the module whose objects the behaviour exercises: "ml"
                       \* (ml/ml_service.py with ml/recommendation_model.py),
                       \* "topic" (ml/topic_nlp_model.py) or "backend"
                       \* (backend/app/services); no operation of one touches
                       \* an object of another

index == <<rm, model_status, topic_trained, brm, user_recommender>>

vars == <<users, catalog, em, fp, resp, index, matches_collection, requests, service>>

----------------------------------------------------------------------------
(* Fixed point *)

\* 6000 = 60 * 100: divisible by every denominator a bounded profile produces
\* (1..6 for the skill scores, 1..4 for schedule and style) and by the
\* resolution (1/100) the cosine is rounded to.
UNIT == 60 * 100

ONE == UNIT * 100

Max(a, b) == IF a >= b THEN a ELSE b

Min(a, b) == IF a <= b THEN a ELSE b

Abs(a) == IF a >= 0 THEN a ELSE 0 - a

\* n / d as a score
Ratio(n, d) == (n * UNIT) \div d

RECURSIVE SumOver(_, _)
SumOver(f, S) ==
    IF S = {} THEN 0
    ELSE LET x == CHOOSE y \in S : TRUE IN f[x] + SumOver(f, S \ {x})

\* set(q) of a list
SeqRange(q) == {q[k] : k \in 1..Len(q)}

\* floor(sqrt(n)), for n >= 0 below 10^4 * 10^4
ISqrt(n) == CHOOSE r \in 0..100 : r * r <= n /\ (r = 100 \/ (r + 1) * (r + 1) > n)

----------------------------------------------------------------------------
(* Profiles *)

Topics == {"python", "stats", "sql"}

Fields == {"", "data science", "IT"}

Prefs == {"visual", "auditory", "kinesthetic", "reading"}

Days == {"mon", "tue"}

Slots == {"am", "pm"}

Levels == {"undergraduate", "graduate", "phd", "postdoc"}

MatchTypes == {"mentor_mentee", "peer", "study_partner"}

\* availability: day -> set of slots, for the days the user filled in
AvailMaps == UNION {[D -> SUBSET Slots] : D \in SUBSET Days}

NoAvail == CHOOSE a \in AvailMaps : DOMAIN a = {}

BaseProfile ==
    [id |-> 0, role |-> "student", is_active |-> TRUE,
     academic_level |-> "graduate", field_of_study |-> "data science",
     learning_preferences |-> {"visual", "reading"},
     availability |-> [d \in {"mon"} |-> {"am", "pm"}],
     interests |-> {"python", "stats"}, strengths |-> {"python"},
     weaknesses |-> {"sql"}, points |-> 0, level |-> 1]

\* The bounded profile universe of the pairwise scorer: the base profile with
\* one aspect ranging over all its values (the empty ones included).
VarySkills ==
    {[BaseProfile EXCEPT !.strengths = s, !.weaknesses = w] :
        s \in SUBSET Topics, w \in SUBSET Topics}

VaryText ==
    {[BaseProfile EXCEPT !.interests = i, !.field_of_study = f] :
        i \in SUBSET Topics, f \in Fields}

VaryAvail == {[BaseProfile EXCEPT !.availability = a] : a \in AvailMaps}

VaryPrefs == {[BaseProfile EXCEPT !.learning_preferences = p] : p \in SUBSET Prefs}

\* a profile with nothing filled in
EmptyProfile ==
    [BaseProfile EXCEPT !.field_of_study = "", !.learning_preferences = {},
                        !.availability = NoAvail, !.interests = {},
                        !.strengths = {}, !.weaknesses = {}]

Profiles == VarySkills \cup VaryText \cup VaryAvail \cup VaryPrefs \cup {EmptyProfile}

----------------------------------------------------------------------------
(* TfidfVectorizer(stop_words='english') + cosine_similarity on two texts *)

\* The tokens the vectorizer keeps of a topic or field string: lower-cased
\* words of two or more characters that are no English stop word ("IT" is
\* lower-cased to the stop word "it").
Tokenize(s) ==
    CASE s = "python" -> {"python"}
      [] s = "stats" -> {"stats"}
      [] s = "sql" -> {"sql"}
      [] s = "data science" -> {"data", "science"}
      [] s = "IT" -> {}
      [] OTHER -> {}

Vocabulary == UNION {Tokenize(s) : s \in Topics \cup Fields}

\* f"{field} {' '.join(interests)}".strip() is empty
TextEmpty(u) == u.field_of_study = "" /\ u.interests = {}

\* term counts of the text of u
TermCount(u) ==
    [t \in Vocabulary |->
        (IF t \in Tokenize(u.field_of_study) THEN 1 ELSE 0)
        + Cardinality({i \in u.interests : t \in Tokenize(i)})]

\* 40 * idf^2: smooth idf ln(3 / (1 + df)) + 1 is 1 for a term of both texts
\* and 1 + ln(3/2) for a term of one text only; (1 + ln 1.5)^2 = 1.9753 ~ 79/40.
IdfSq40(df) == IF df = 2 THEN 40 ELSE 79

\* cosine_similarity of a tf-idf row with an identical row of n equal
\* entries, in IEEE double arithmetic: the row is L2-normalised twice (by the
\* vectorizer, then by cosine_similarity) and the products are summed in
\* order.  For n = 2, 3 and 5 the sum is 1.0000000000000002, for n = 1 and 4
\* it is 1.0.  A value above 1.0 is represented as UNIT + 1.
SelfCosine(n) == IF n \in {2, 3, 5} THEN UNIT + 1 ELSE UNIT

\* cosine similarity of the two tf-idf vectors; of different vectors, rounded
\* down to 1/100
TfidfCosine(u1, u2) ==
    LET c1 == TermCount(u1)
        c2 == TermCount(u2)
        df == [t \in Vocabulary |->
                 (IF c1[t] > 0 THEN 1 ELSE 0) + (IF c2[t] > 0 THEN 1 ELSE 0)]
        dot == SumOver([t \in Vocabulary |-> c1[t] * c2[t]], Vocabulary)
        n1 == SumOver([t \in Vocabulary |-> c1[t] * c1[t] * IdfSq40(df[t])], Vocabulary)
        n2 == SumOver([t \in Vocabulary |-> c2[t] * c2[t] * IdfSq40(df[t])], Vocabulary)
    IN  IF n1 = 0 \/ n2 = 0 THEN 0
        ELSE IF c1 = c2 THEN SelfCosine(Cardinality({t \in Vocabulary : c1[t] > 0}))
        ELSE ISqrt((dot * dot * 1600 * 10000) \div (n1 * n2)) * (UNIT \div 100)

\* fit_transform raises ValueError("empty vocabulary") when no token is left
EmptyVocabulary(u1, u2) ==
    \A t \in Vocabulary : TermCount(u1)[t] = 0 /\ TermCount(u2)[t] = 0

----------------------------------------------------------------------------
(* MatchmakingService: the four component scores and the overall score *)

\* the peer branch counting one direction of help only
skill_one_direction(user1, user2, match_type) ==
    IF match_type = "peer"
    THEN IF user2.weaknesses = {} THEN UNIT \div 2
         ELSE Ratio(Cardinality(user1.strengths \cap user2.weaknesses),
                    Cardinality(user2.weaknesses))
    ELSE 0

\* a skill score whose mentor_mentee branch is normalised by the mentor's
\* strengths
skill_by_mentor_strengths(user1, user2, match_type) ==
    IF match_type = "mentor_mentee"
    THEN IF user2.strengths = {} THEN 0
         ELSE Ratio(Cardinality(user2.strengths \cap user1.weaknesses),
                    Cardinality(user2.strengths))
    ELSE IF match_type = "peer"
    THEN LET total_needs == Cardinality(user1.weaknesses) + Cardinality(user2.weaknesses)
         IN  IF total_needs = 0 THEN UNIT \div 2
             ELSE Ratio(Cardinality(user1.strengths \cap user2.weaknesses)
                        + Cardinality(user2.strengths \cap user1.weaknesses), total_needs)
    ELSE IF user1.interests \cup user2.interests = {} THEN 0
         ELSE Ratio(Cardinality(user1.interests \cap user2.interests),
                    Cardinality(user1.interests \cup user2.interests))

calculate_skill_compatibility(user1, user2, match_type) ==
    IF match_type = "mentor_mentee"
    THEN LET mentor_strengths == user2.strengths
             mentee_weaknesses == user1.weaknesses
         IN  IF mentee_weaknesses = {} THEN 0
             ELSE Ratio(Cardinality(mentor_strengths \cap mentee_weaknesses),
                        Cardinality(mentee_weaknesses))
    ELSE IF match_type = "peer"
    THEN LET help_score_1to2 == Cardinality(user1.strengths \cap user2.weaknesses)
             help_score_2to1 == Cardinality(user2.strengths \cap user1.weaknesses)
             total_needs == Cardinality(user1.weaknesses) + Cardinality(user2.weaknesses)
         IN  IF total_needs = 0 THEN UNIT \div 2
             ELSE Ratio(help_score_1to2 + help_score_2to1, total_needs)
    ELSE LET common_interests == user1.interests \cap user2.interests
             total_interests == user1.interests \cup user2.interests
         IN  IF total_interests = {} THEN 0
             ELSE Ratio(Cardinality(common_interests), Cardinality(total_interests))

\* the early return on missing availability left out
schedule_without_default(user1, user2) ==
    LET a1 == user1.availability
        a2 == user2.availability
        common_days == DOMAIN a1 \cap DOMAIN a2
        day_score == [d \in common_days |->
            IF a1[d] \cap a2[d] = {} THEN 0
            ELSE Ratio(Cardinality(a1[d] \cap a2[d]),
                       Max(Cardinality(a1[d]), Cardinality(a2[d])))]
    IN  SumOver(day_score, common_days) \div Max(Cardinality(common_days), 1)

\* a schedule score normalised by the first user's slots only
schedule_by_first_user(user1, user2) ==
    LET a1 == user1.availability
        a2 == user2.availability
    IN  IF DOMAIN a1 = {} \/ DOMAIN a2 = {} THEN UNIT \div 2
        ELSE LET common_days == DOMAIN a1 \cap DOMAIN a2
                 day_score == [d \in common_days |->
                     IF a1[d] = {} THEN 0
                     ELSE Ratio(Cardinality(a1[d] \cap a2[d]), Cardinality(a1[d]))]
             IN  SumOver(day_score, common_days) \div Max(Cardinality(common_days), 1)

\* the neutral score returned also when the two maps share no day
schedule_neutral_without_common_day(user1, user2) ==
    LET a1 == user1.availability
        a2 == user2.availability
        common_days == DOMAIN a1 \cap DOMAIN a2
        day_score == [d \in common_days |->
            IF a1[d] \cap a2[d] = {} THEN 0
            ELSE Ratio(Cardinality(a1[d] \cap a2[d]),
                       Max(Cardinality(a1[d]), Cardinality(a2[d])))]
    IN  IF common_days = {} THEN UNIT \div 2
        ELSE SumOver(day_score, common_days) \div Cardinality(common_days)

calculate_schedule_compatibility(user1, user2) ==
    LET a1 == user1.availability
        a2 == user2.availability
    IN  IF DOMAIN a1 = {} \/ DOMAIN a2 = {} THEN UNIT \div 2
        ELSE LET common_days == DOMAIN a1 \cap DOMAIN a2
                 total_days == Cardinality(common_days)
                 day_score == [d \in common_days |->
                     IF a1[d] \cap a2[d] = {} THEN 0
                     ELSE Ratio(Cardinality(a1[d] \cap a2[d]),
                                Max(Cardinality(a1[d]), Cardinality(a2[d])))]
                 overlap_score == SumOver(day_score, common_days)
             IN  overlap_score \div Max(total_days, 1)

calculate_learning_style_compatibility(user1, user2) ==
    LET p1 == user1.learning_preferences
        p2 == user2.learning_preferences
    IN  IF p1 = {} \/ p2 = {} THEN UNIT \div 2
        ELSE IF p1 \cup p2 = {} THEN 0
        ELSE Ratio(Cardinality(p1 \cap p2), Cardinality(p1 \cup p2))

calculate_topic_relevance(user1, user2) ==
    IF TextEmpty(user1) \/ TextEmpty(user2) THEN UNIT \div 2
    ELSE IF EmptyVocabulary(user1, user2) THEN UNIT \div 2   \* except: return 0.5
    ELSE TfidfCosine(user1, user2)

\* weights, in hundredths, in the order skill, schedule, learning style, topic
weights(match_type) ==
    CASE match_type = "mentor_mentee" -> <<40, 20, 20, 20>>
      [] match_type = "peer" -> <<30, 25, 25, 20>>
      [] match_type = "study_partner" -> <<25, 30, 25, 20>>
      [] OTHER -> <<30, 25, 25, 20>>

\* Field(..., ge=0, le=1) of every MatchScore attribute
MatchScoreValid(m) ==
    /\ m.overall_score >= 0 /\ m.overall_score <= ONE
    /\ \A c \in {m.skill_compatibility, m.schedule_compatibility,
                 m.learning_style_compatibility, m.topic_relevance} :
           c >= 0 /\ c <= UNIT

ValidationError == [error |-> "ValidationError"]

\* overall_score is a double: the four products added from left to right.
\* A sum whose decimal value is 0.3 can be the double 0.3 or the next one,
\* 0.30000000000000004 (0.1 + 0.2, 0.1 + 0.1 + 0.1).  SumAboveDecimal lists
\* the products, in the model's profiles, whose sum is the larger double;
\* 1 * 0.3 alone is the double 0.3.
SumAboveDecimal ==
    {<<0, 0, 10 * UNIT, 20 * UNIT>>, <<0, 0, 20 * UNIT, 10 * UNIT>>,
     <<0, 10 * UNIT, 0, 20 * UNIT>>, <<0, 10 * UNIT, 10 * UNIT, 10 * UNIT>>,
     <<0, 10 * UNIT, 20 * UNIT, 0>>, <<0, 20 * UNIT, 0, 10 * UNIT>>,
     <<0, 20 * UNIT, 10 * UNIT, 0>>}

\* the values _calculate_match_score passes to the MatchScore constructor;
\* above_decimal tells that the double overall_score exceeds the double of
\* its decimal value
match_score_fields(user1, user2, match_type) ==
    LET skill_score == calculate_skill_compatibility(user1, user2, match_type)
        schedule_score == calculate_schedule_compatibility(user1, user2)
        learning_style_score == calculate_learning_style_compatibility(user1, user2)
        topic_score == calculate_topic_relevance(user1, user2)
        weight_set == weights(match_type)
    IN  [error |-> "",
         above_decimal |-> <<skill_score * weight_set[1], schedule_score * weight_set[2],
                             learning_style_score * weight_set[3],
                             topic_score * weight_set[4]>> \in SumAboveDecimal,
         overall_score |-> skill_score * weight_set[1]
                           + schedule_score * weight_set[2]
                           + learning_style_score * weight_set[3]
                           + topic_score * weight_set[4],
         skill_compatibility |-> skill_score,
         schedule_compatibility |-> schedule_score,
         learning_style_compatibility |-> learning_style_score,
         topic_relevance |-> topic_score]

\* the MatchScore returned, or the ValidationError its constructor raises
calculate_match_score(user1, user2, match_type) ==
    LET m == match_score_fields(user1, user2, match_type)
    IN  IF MatchScoreValid(m) THEN m ELSE ValidationError

----------------------------------------------------------------------------
(* The pairwise scorer on every pair of bounded profiles *)

NoResp == [op |-> "none"]

\* the objects of the recommenders as their constructors leave them
NewRecommendationModel ==
    [model |-> [present |-> FALSE, fitted |-> FALSE, rows |-> <<>>],
     scaler |-> [fitted |-> FALSE, corpus |-> <<>>],
     user_features |-> [present |-> FALSE, corpus |-> <<>>],
     user_ids |-> [present |-> FALSE, ids |-> <<>>]]

NewUserRecommender == [present |-> FALSE, fitted |-> FALSE, rows |-> <<>>, ids |-> <<>>]

\* FeedbackPredictor.__init__: no pipeline yet
NewFeedbackPredictor ==
    [sentiment_model |-> "None", quality_model |-> "None", is_trained |-> FALSE]

\* ExpertMatchingModel.__init__: is_trained, expert_profiles and, as fitted_on,
\* the corpus the vocabulary, the idf weights and expert_vectors come from
NewExpertModel == [is_trained |-> FALSE, expert_profiles |-> <<>>, fitted_on |-> <<>>]

\* the matches collection empty and no request in flight
Connections == {"c1", "c2"}

NoRequest == [pc |-> "idle"]

NoRoutes ==
    /\ matches_collection = <<>>
    /\ requests = [c \in Connections |-> NoRequest]

NothingTrained ==
    /\ rm = NewRecommendationModel
    /\ model_status = FALSE
    /\ topic_trained = FALSE
    /\ brm = NewRecommendationModel
    /\ user_recommender = NewUserRecommender
    /\ service = "backend"
    /\ catalog = <<>>
    /\ em = NewExpertModel
    /\ fp = NewFeedbackPredictor
    /\ NoRoutes

InitScore ==
    /\ users \in {<<p1, [p2 EXCEPT !.id = 1]>> : p1 \in Profiles, p2 \in Profiles}
    /\ resp = NoResp
    /\ NothingTrained

\* _calculate_match_score(users[1], users[2], match_type)
CalculateMatchScore(mt) ==
    /\ resp = NoResp
    /\ resp' = [op |-> "calculate_match_score", match_type |-> mt,
                fields |-> match_score_fields(users[1], users[2], mt),
                score |-> calculate_match_score(users[1], users[2], mt)]
    /\ UNCHANGED <<matches_collection, requests, users, catalog, em, fp, index, service>>

NextScore == \E mt \in MatchTypes : CalculateMatchScore(mt)

SpecScore == InitScore /\ [][NextScore]_vars

----------------------------------------------------------------------------
(* MatchmakingService.find_potential_matches over the users collection *)

\* list.sort(key=score, reverse=True): descending, equal scores keep the
\* order they had in the list (the sort is stable)
RECURSIVE SortByScoreDesc(_)
SortByScoreDesc(items) ==
    IF items = <<>> THEN <<>>
    ELSE LET best == CHOOSE i \in 1..Len(items) :
                         /\ \A j \in 1..Len(items) : items[j].score <= items[i].score
                         /\ \A j \in 1..(i - 1) : items[j].score < items[i].score
             rest == [k \in 1..(Len(items) - 1) |->
                         IF k < best THEN items[k] ELSE items[k + 1]]
         IN  <<items[best]>> \o SortByScoreDesc(rest)

\* items[:limit]
Truncate(items, limit) == SubSeq(items, 1, Min(limit, Len(items)))

\* {"profile.field_of_study": {"$regex": pattern, "$options": "i"}} on the
\* bounded field strings: the pattern occurs in the field, case ignored
RegexMatches(pattern, field) == pattern = "" \/ pattern = field

\* the query filter of each flow, on one document of the collection
mentor_filter(user, other) ==
    /\ other.id # user.id
    /\ other.is_active
    /\ \/ other.role = "mentor"
       \/ other.role = "admin"
       \/ other.strengths \cap user.weaknesses # {}

peer_filter(user, other) ==
    /\ other.id # user.id
    /\ other.is_active
    /\ other.academic_level = user.academic_level
    /\ \/ other.interests \cap user.interests # {}
       \/ other.strengths \cap user.weaknesses # {}
       \/ other.weaknesses \cap user.strengths # {}

partner_filter(user, other) ==
    /\ other.id # user.id
    /\ other.is_active
    /\ RegexMatches(user.field_of_study, other.field_of_study)

cursor_filter(match_type, user, other) ==
    IF match_type = "mentor_mentee" THEN mentor_filter(user, other)
    ELSE IF match_type = "peer" THEN peer_filter(user, other)
    ELSE partner_filter(user, other)

\* the minimum overall score of each flow (0.3, 0.4, 0.3)
MinScoreMentor == 30 * UNIT

MinScorePeer == 40 * UNIT

MinScorePartner == 30 * UNIT

\* the threshold test with the sub-threshold candidates let through
keep_everything(score, minimum) == TRUE

\* if score.overall_score > minimum, on doubles
above_threshold(score, minimum) ==
    \/ score.overall_score > minimum
    \/ score.overall_score = minimum /\ score.above_decimal

\* The loop of _find_mentors / _find_peers / _find_study_partners over the
\* cursor: the documents of `docs` (natural order) that pass the filter are
\* scored; the call raises if a score cannot be constructed; the ones above
\* the minimum are kept, sorted and truncated.
find_flow(user, docs, match_type, minimum, limit) ==
    LET idx == SelectSeq([i \in 1..Len(docs) |-> i],
                         LAMBDA i : cursor_filter(match_type, user, docs[i]))
        scored == [k \in 1..Len(idx) |->
                      [id |-> docs[idx[k]].id,
                       match_score |-> calculate_match_score(user, docs[idx[k]], match_type)]]
        kept == SelectSeq(scored,
                    LAMBDA c : /\ c.match_score.error = ""
                               /\ above_threshold(c.match_score, minimum))
        items == [k \in 1..Len(kept) |->
                     [id |-> kept[k].id, score |-> kept[k].match_score.overall_score,
                      match_score |-> kept[k].match_score]]
    IN  IF \E k \in 1..Len(scored) : scored[k].match_score.error # ""
        THEN [error |-> "ValidationError", matches |-> <<>>]
        ELSE [error |-> "", matches |-> Truncate(SortByScoreDesc(items), limit)]

find_mentors(user, docs, limit) ==
    IF user.weaknesses = {} THEN [error |-> "", matches |-> <<>>]
    ELSE find_flow(user, docs, "mentor_mentee", MinScoreMentor, limit)

find_peers(user, docs, limit) ==
    find_flow(user, docs, "peer", MinScorePeer, limit)

find_study_partners(user, docs, limit) ==
    find_flow(user, docs, "study_partner", MinScorePartner, limit)

find_potential_matches(user, docs, match_type, limit) ==
    IF match_type = "mentor_mentee" THEN find_mentors(user, docs, limit)
    ELSE IF match_type = "peer" THEN find_peers(user, docs, limit)
    ELSE find_study_partners(user, docs, limit)

\* Bounds of the candidate search
NumUsers == 3

MaxLimit == 2

\* The profiles of the collection: the base student, a mentor covering the
\* student's weakness, a mentor sharing nothing with the student, a
\* deactivated mentor, a peer with complementary skills and an empty profile.
MentorProfile ==
    [BaseProfile EXCEPT !.role = "mentor", !.strengths = {"sql", "stats"},
                        !.weaknesses = {}, !.academic_level = "phd"]

RemoteProfile ==
    [BaseProfile EXCEPT !.role = "mentor", !.strengths = {"stats"}, !.weaknesses = {},
                        !.field_of_study = "IT", !.interests = {},
                        !.learning_preferences = {"auditory"},
                        !.availability = [d \in {"tue"} |-> {"am"}]]

InactiveProfile == [MentorProfile EXCEPT !.is_active = FALSE]

PeerProfile ==
    [BaseProfile EXCEPT !.strengths = {"sql"}, !.weaknesses = {"python", "stats"},
                        !.interests = {"python"}, !.field_of_study = "",
                        !.availability = [d \in Days |-> IF d = "mon" THEN {"am"} ELSE {"pm"}]]

\* free when PeerProfile is, with nothing else in common with it
SameHoursProfile ==
    [PeerProfile EXCEPT !.field_of_study = "IT", !.interests = {"sql"},
                        !.learning_preferences = {"auditory"}]

MatchProfiles ==
    {BaseProfile, MentorProfile, RemoteProfile, InactiveProfile, PeerProfile, EmptyProfile,
     SameHoursProfile}

\* Every collection of NumUsers documents over MatchProfiles; the ids are
\* distinct and in any order relative to the natural order of the documents.
InitMatch ==
    /\ users \in {[i \in 1..NumUsers |-> [ps[i] EXCEPT !.id = ids[i]]] :
                     ps \in [1..NumUsers -> MatchProfiles], ids \in Permutations(1..NumUsers)}
    /\ resp = NoResp
    /\ NothingTrained

FindPotentialMatches(i, mt, limit) ==
    /\ resp = NoResp
    /\ resp' = [op |-> "find_potential_matches", user_id |-> users[i].id,
                match_type |-> mt, limit |-> limit]
               @@ find_potential_matches(users[i], users, mt, limit)
    /\ UNCHANGED <<matches_collection, requests, users, catalog, em, fp, index, service>>

NextMatch ==
    \E i \in 1..NumUsers, mt \in MatchTypes, limit \in 1..MaxLimit :
        FindPotentialMatches(i, mt, limit)

SpecMatch == InitMatch /\ [][NextMatch]_vars

----------------------------------------------------------------------------
(* Feature encodings and nearest-neighbour search *)

level_mapping(level) ==
    CASE level = "undergraduate" -> 1
      [] level = "graduate" -> 2
      [] level = "phd" -> 3
      [] level = "postdoc" -> 4
      [] OTHER -> 1

Flag(b) == IF b THEN 1 ELSE 0

\* MLService._extract_user_features (backend): the row of one user
extract_user_features(user) ==
    <<level_mapping(user.academic_level),
      Cardinality(user.interests), Cardinality(user.strengths),
      Cardinality(user.weaknesses),
      Flag("visual" \in user.learning_preferences),
      Flag("auditory" \in user.learning_preferences),
      Flag("kinesthetic" \in user.learning_preferences),
      Flag("reading" \in user.learning_preferences),
      user.points, user.level>>

Dot(a, b) == SumOver([j \in 1..Len(a) |-> a[j] * b[j]], 1..Len(a))

\* a/b < c/d for a, c >= 0 and b, d > 0, without forming a*d and c*b
RECURSIVE FracLess(_, _, _, _)
FracLess(a, b, c, d) ==
    IF a \div b # c \div d THEN a \div b < c \div d
    ELSE IF c % d = 0 THEN FALSE
    ELSE IF a % b = 0 THEN TRUE
    ELSE FracLess(d, c % d, b, a % b)

\* In kneighbors, row x is strictly farther from q than row y in cosine
\* distance when cos(q, x) < cos(q, y); all entries are non-negative and no
\* row is zero, so the cosines are compared through dot^2 / |row|^2.
InjectiveSeqs(S, n) ==
    {f \in [1..n -> S] : \A a, b \in 1..n : a # b => f[a] # f[b]}

\* NearestNeighbors(metric='cosine').kneighbors([q], n_neighbors=n) on the
\* fitted rows: every list of n row indices in non-decreasing distance that
\* leaves out no strictly nearer row; rows at equal distance come in either
\* order
kneighbors(rows, q, n) ==
    LET num == [r \in 1..Len(rows) |-> Dot(q, rows[r]) * Dot(q, rows[r])]
        den == [r \in 1..Len(rows) |-> Dot(rows[r], rows[r])]
        farther(x, y) == FracLess(num[x], den[x], num[y], den[y])
    IN  {ord \in InjectiveSeqs(1..Len(rows), n) :
            /\ \A a, b \in 1..n : a < b => ~farther(ord[a], ord[b])
            /\ \A a \in 1..n : \A r \in 1..Len(rows) :
                   (\A b \in 1..n : ord[b] # r) => ~farther(ord[a], r)}

----------------------------------------------------------------------------
(* RecommendationModel (ml/recommendation_model.py) *)

\* program constants
MinTrainUsers == 3

NeighbourSlack == 5

\* NewRecommendationModel is the object after __init__: no model, an
\* unfitted StandardScaler, no stored features or ids.  `corpus` / `rows` /
\* `ids` are the user ids of the training list the attribute was computed
\* from, in list order.

\* where a training run raises: nowhere; in prepare_user_features (a
\* document with a field of the wrong type); in scaler.fit_transform (a
\* non-numeric feature: StandardScaler.fit resets the scaler, then rejects the
\* matrix); in NearestNeighbors.fit (a NaN feature, which the scaler lets
\* through)
Faults == {"none", "prepare", "scale", "fit"}

IdsOf(docs) == [i \in 1..Len(docs) |-> docs[i].id]

\* the statements of train_user_similarity_model after the length check
train_stages(m, users_data, fault) ==
    IF fault = "prepare" THEN <<FALSE, m>>
    ELSE IF fault = "scale"
    THEN <<FALSE, [m EXCEPT !.scaler = [fitted |-> FALSE, corpus |-> <<>>]]>>
    ELSE IF fault = "fit"
    THEN <<FALSE, [m EXCEPT !.scaler = [fitted |-> TRUE, corpus |-> IdsOf(users_data)],
                            !.model = [present |-> TRUE, fitted |-> FALSE, rows |-> <<>>]]>>
    ELSE <<TRUE,
           [model |-> [present |-> TRUE, fitted |-> TRUE, rows |-> IdsOf(users_data)],
            scaler |-> [fitted |-> TRUE, corpus |-> IdsOf(users_data)],
            user_features |-> [present |-> TRUE, corpus |-> IdsOf(users_data)],
            user_ids |-> [present |-> TRUE, ids |-> IdsOf(users_data)]]>>

\* a training without the minimum number of users
train_without_minimum(m, users_data, fault) == train_stages(m, users_data, fault)

\* a training that stores the new model only once it is fitted, so that a
\* failing fit leaves the previous model next to the new scaler
train_assigning_after_fit(m, users_data, fault) ==
    IF Len(users_data) < MinTrainUsers THEN <<FALSE, m>>
    ELSE IF fault = "fit"
    THEN <<FALSE, [m EXCEPT !.scaler = [fitted |-> TRUE, corpus |-> IdsOf(users_data)]]>>
    ELSE train_stages(m, users_data, fault)

\* train_user_similarity_model: <<returned value, object afterwards>>
train_user_similarity_model(m, users_data, fault) ==
    IF Len(users_data) < MinTrainUsers THEN <<FALSE, m>>
    ELSE train_stages(m, users_data, fault)

\* recommend_users: the set of lists of user ids it can return.  The
\* cosine ranking of the standardized rows is not computed: kneighbors may
\* return any n_neighbors rows (the set `near`) in any order, and the loop
\* keeps the first n_recommendations of them whose id is not excluded, so
\* the result is any list without repetition of that many eligible rows.
rm_recommend_users(m, user_profile, n_recommendations, exclude_ids) ==
    IF ~m.model.present \/ ~m.user_features.present THEN {<<>>}
    ELSE IF ~m.scaler.fitted \/ ~m.model.fitted THEN {<<>>}    \* except: return []
    ELSE LET ids == m.user_ids.ids
             n_neighbors == Min(n_recommendations + NeighbourSlack, Len(ids))
             exclude_set == exclude_ids \cup {user_profile.id}
         IN  IF n_neighbors > Len(m.model.rows) THEN {<<>>}
             ELSE UNION {
                    LET eligible == {r \in near : ids[r] \notin exclude_set}
                        taken == Min(n_recommendations, Cardinality(eligible))
                    IN  {[k \in 1..taken |-> ids[ord[k]]] :
                             ord \in InjectiveSeqs(eligible, taken)}
                    : near \in {N \in SUBSET (1..Len(m.model.rows)) :
                                   Cardinality(N) = n_neighbors}}

----------------------------------------------------------------------------
(* MLService of the ml package: get_user_recommendations and its fallback *)

\* program constant: the points above which a user counts as active
ActivePoints == 100

\* user_field in other_field, both lower-cased and both non-empty, on the
\* bounded field strings
\* a in b for the lower-cased field strings of the model
IsSubstring(a, b) ==
    a = b \/ <<a, b>> \in {<<"science", "data science">>, <<"physics", "astrophysics">>}

\* user_field and other_field and user_field in other_field
FieldContained(user_field, other_field) ==
    user_field # "" /\ other_field # "" /\ IsSubstring(user_field, other_field)

\* the terms of the score of one candidate, in tenths: interests (in units
\* of 0.4), field, level, activity
rule_based_terms(user_profile, other_user) ==
    <<Cardinality(user_profile.interests \cap other_user.interests),
      IF FieldContained(user_profile.field_of_study, other_user.field_of_study)
      THEN 3 ELSE 0,
      IF user_profile.academic_level = other_user.academic_level THEN 2
      ELSE IF Abs(level_mapping(user_profile.academic_level)
                  - level_mapping(other_user.academic_level)) = 1 THEN 1
      ELSE 0,
      IF other_user.points > ActivePoints THEN 1 ELSE 0>>

\* The score is a double: score = 0; score += n * 0.4; score += 0.3;
\* score += 0.2 or 0.1; score += 0.1, the last three only when they apply.
\* Two sums of the same number of tenths can be different doubles (0.4 + 0.3
\* is 0.7, 0.4 + 0.2 + 0.1 is 0.7000000000000001); never more than two
\* doubles occur for one number of tenths.  RoundsUp lists the terms whose
\* sum is the larger of the two.
RoundsUp ==
    {<<0, 0, 2, 1>>, <<1, 0, 2, 0>>, <<1, 0, 2, 1>>, <<2, 0, 0, 0>>, <<2, 0, 0, 1>>,
     <<2, 0, 2, 0>>, <<2, 0, 1, 0>>, <<2, 0, 1, 1>>, <<2, 3, 1, 1>>, <<3, 0, 0, 1>>,
     <<3, 0, 1, 0>>, <<3, 0, 1, 1>>, <<3, 3, 1, 1>>}

\* the score of one candidate: twice its number of tenths, plus one when
\* the double is the larger one of that number of tenths
rule_based_score(user_profile, other_user) ==
    LET t == rule_based_terms(user_profile, other_user)
    IN  2 * (4 * t[1] + t[2] + t[3] + t[4]) + (IF t \in RoundsUp THEN 1 ELSE 0)

\* a rule-based matching that returns the first candidates in list order
rule_based_unsorted(user_profile, available_users, n_recommendations) ==
    LET kept == SelectSeq(available_users,
                    LAMBDA o : /\ o.id # user_profile.id
                               /\ rule_based_score(user_profile, o) > 0)
    IN  Truncate([k \in 1..Len(kept) |->
                     [id |-> kept[k].id, score |-> rule_based_score(user_profile, kept[k]),
                      recommendation_type |-> "rule_based"]], n_recommendations)

\* _rule_based_user_matching: the candidates other than the user with a
\* positive score, sorted by score (stable) and truncated
rule_based_user_matching(user_profile, available_users, n_recommendations) ==
    LET kept == SelectSeq(available_users,
                    LAMBDA o : /\ o.id # user_profile.id
                               /\ rule_based_score(user_profile, o) > 0)
        matches == [k \in 1..Len(kept) |->
                       [id |-> kept[k].id, score |-> rule_based_score(user_profile, kept[k]),
                        recommendation_type |-> "rule_based"]]
    IN  Truncate(SortByScoreDesc(matches), n_recommendations)

\* the enrichment loop: a recommendation is kept if its user is among
\* available_users
Enrich(rec_ids, available_users) ==
    LET known == {available_users[j].id : j \in 1..Len(available_users)}
        kept == SelectSeq(rec_ids, LAMBDA id : id \in known)
    IN  [k \in 1..Len(kept) |->
            [id |-> kept[k], score |-> 0, recommendation_type |-> "user_similarity"]]

\* get_user_recommendations: the outcomes <<object, status flag, response>>
get_user_recommendations(m, status, user_profile, available_users, n_recommendations, fault) ==
    IF ~status /\ Len(available_users) < MinTrainUsers
    THEN {<<m, status,
            [path |-> "rule_based", trained |-> FALSE, ml |-> <<>>,
             items |-> rule_based_user_matching(user_profile, available_users,
                                                n_recommendations)]>>}
    ELSE LET run == IF ~status
                    THEN train_user_similarity_model(
                             m, available_users \o <<user_profile>>, fault)
                    ELSE <<status, m>>
         IN  {<<run[2], run[1],
                [path |-> "knn", trained |-> ~status, ml |-> recs,
                 items |-> Enrich(recs, available_users)]>> :
                  recs \in rm_recommend_users(run[2], user_profile, n_recommendations, {})}

\* get_hybrid_recommendations: the recommend_users list without repeated ids
RECURSIVE DedupKeepFirst(_, _)
DedupKeepFirst(ids, seen) ==
    IF ids = <<>> THEN <<>>
    ELSE IF Head(ids) \in seen THEN DedupKeepFirst(Tail(ids), seen)
    ELSE <<Head(ids)>> \o DedupKeepFirst(Tail(ids), seen \cup {Head(ids)})

get_hybrid_recommendations(m, user_profile, available_users, n_recommendations) ==
    {Truncate(DedupKeepFirst(recs, {}), n_recommendations) :
        recs \in rm_recommend_users(m, user_profile, n_recommendations, {})}

----------------------------------------------------------------------------
(* MLService of the backend and MatchmakingService.find_ml_recommendations *)

\* program constant: the least number of users train_user_recommender accepts
MinSimpleTrainUsers == 5

\* train_user_recommender: <<returned value, user_recommender afterwards>>;
\* `ids` records whose row each fitted row is
train_user_recommender(rec, user_data, fault) ==
    IF Len(user_data) < MinSimpleTrainUsers THEN <<FALSE, rec>>
    ELSE IF fault = "prepare" THEN <<FALSE, rec>>
    ELSE IF fault = "fit"
    THEN <<FALSE, [present |-> TRUE, fitted |-> FALSE, rows |-> <<>>, ids |-> <<>>]>>
    ELSE <<TRUE, [present |-> TRUE, fitted |-> TRUE,
                  rows |-> [k \in 1..Len(user_data) |-> extract_user_features(user_data[k])],
                  ids |-> IdsOf(user_data)]>>

\* the simple recommender of recommend_users: the neighbour list without its
\* first entry, as 0-based row indices
simple_recommend(rec, user_profile, n_recommendations) ==
    IF ~rec.present THEN {<<>>}
    ELSE IF ~rec.fitted THEN {<<>>}                      \* except: return []
    ELSE LET n_neighbors == Min(n_recommendations + 1, Len(rec.rows))
         IN  {Truncate([k \in 1..(n_neighbors - 1) |->
                           [user_index |-> ord[k + 1] - 1, rank |-> k]],
                       n_recommendations) :
                  ord \in kneighbors(rec.rows, extract_user_features(user_profile),
                                     n_neighbors)}

\* the module-level import `from ml.recommendation_model import
\* RecommendationModel` runs ml/__init__.py, whose first line imports the
\* names topic_classifier and TopicClassifier that topic_nlp_model.py does
\* not define: ImportError, and MLService.__init__ sets
\* self.recommendation_model = None
recommendation_model_imported == FALSE

\* MLService.recommend_users: the outcomes <<advanced object, response>>.
\* _get_all_users_for_model() returns [], so the training attempt on a
\* model-less advanced object returns False and changes nothing.
ml_recommend_users(adv, rec, user_profile, n_recommendations) ==
    LET attempt == recommendation_model_imported /\ ~adv.model.present
        run == IF attempt THEN train_user_similarity_model(adv, <<>>, "none")
               ELSE <<TRUE, adv>>
        adv1 == run[2]
        advanced == IF recommendation_model_imported /\ adv1.model.present
                    THEN rm_recommend_users(adv1, user_profile, n_recommendations,
                                            {user_profile.id})
                    ELSE {<<>>}
    IN  UNION {
          IF recs # <<>>
          THEN {<<adv1, [path |-> "advanced", trained |-> attempt,
                         ids |-> recs, rows |-> <<>>]>>}
          ELSE {<<adv1, [path |-> IF rec.present THEN "simple" ELSE "none",
                         trained |-> attempt,
                         ids |-> <<>>, rows |-> simple]>> :
                    simple \in simple_recommend(rec, user_profile, n_recommendations)}
          : recs \in advanced}

ActiveUsers(docs) == SelectSeq(docs, LAMBDA u : u.is_active)

\* find_ml_recommendations for the user document `user`:
\* <<advanced object, user_recommender, response>>
find_ml_recommendations(adv, rec, docs, user, limit, fault) ==
    LET all_users == ActiveUsers(docs)
        run == IF ~rec.present THEN train_user_recommender(rec, all_users, fault)
               ELSE <<TRUE, rec>>
    IN  IF ~run[1]
        THEN {<<adv, run[2], [path |-> "none", trained |-> TRUE, error |-> "",
                              ids |-> <<>>, matched |-> <<>>]>>}
        ELSE {<<out[1], run[2],
                IF out[2].path = "advanced"
                THEN \* rec["user_index"] on an advanced item raises KeyError
                     [path |-> "advanced", trained |-> ~rec.present \/ out[2].trained,
                      error |-> "KeyError", ids |-> <<>>, matched |-> <<>>]
                ELSE LET hits == SelectSeq(out[2].rows,
                                     LAMBDA r : r.user_index < Len(all_users))
                     IN  [path |-> out[2].path, trained |-> ~rec.present \/ out[2].trained,
                          error |-> "",
                          ids |-> [k \in 1..Len(hits) |-> all_users[hits[k].user_index + 1].id],
                          matched |-> [k \in 1..Len(hits) |->
                                          run[2].ids[hits[k].user_index + 1]]]>> :
                  out \in ml_recommend_users(adv, run[2], user, limit)}

----------------------------------------------------------------------------
(* TopicNLPModel.predict_topic *)

TopicFaults == {"none", "train"}

\* not text or not text.strip(), on the texts of the model
Blank(text) == text \in {"", "  "}

\* a predict_topic that never trains
predict_without_training(trained, text, fault) ==
    <<trained, [error |-> "", trained |-> FALSE,
                label |-> IF Blank(text) \/ ~trained THEN "Other" ELSE "probabilities",
                confidence |-> IF Blank(text) \/ ~trained THEN "1.0" ELSE "max probability"]>>

\* predict_topic: <<is_trained afterwards, response>>; train() is called
\* outside the try block, so an exception of train() leaves predict_topic.
\* label and confidence are the top topic of the returned dictionary and its
\* probability, as get_top_topic reads them: {"Other": 1.0} for a blank text.
predict_topic(trained, text, fault) ==
    IF ~trained /\ fault = "train"
    THEN <<FALSE, [error |-> "Exception", trained |-> TRUE, label |-> "", confidence |-> ""]>>
    ELSE <<TRUE, [error |-> "", trained |-> ~trained,
                  label |-> IF Blank(text) THEN "Other" ELSE "probabilities",
                  confidence |-> IF Blank(text) THEN "1.0" ELSE "max probability"]>>

----------------------------------------------------------------------------
(* The recommenders as a state machine *)

\* bounds
MaxK == 2

TwinProfile ==
    [BaseProfile EXCEPT !.interests = {"python", "sql"}, !.strengths = {"stats"},
                        !.weaknesses = {"python"}]

\* six documents with ids in natural order: the second has the feature row
\* of the first, the last is inactive
IndexUsers ==
    <<[BaseProfile EXCEPT !.id = 1],
      [TwinProfile EXCEPT !.id = 2],
      [MentorProfile EXCEPT !.id = 3, !.points = 150, !.level = 2],
      [PeerProfile EXCEPT !.id = 4],
      [EmptyProfile EXCEPT !.id = 5],
      [RemoteProfile EXCEPT !.id = 6, !.is_active = FALSE]>>

\* the documents the callers of the ml package work with
MlUsers == SubSeq(IndexUsers, 1, 4)

\* the users collections of the backend: five active users, or four
BackendUsers == {IndexUsers, [IndexUsers EXCEPT ![5].is_active = FALSE]}

\* the candidate lists and training lists a caller passes: the documents up
\* to any point
Pools == {SubSeq(users, 1, b) : b \in 0..Len(users)}

Texts == {"", "  ", "python basics"}

\* a fault is an input of a call only if the call reaches the training code
FaultsIf(training) == IF training THEN Faults ELSE {"none"}

Untrained(m) == ~m.model.present /\ ~m.user_features.present /\ ~m.user_ids.present

InitIndex ==
    /\ resp = NoResp
    /\ catalog = <<>>
    /\ em = NewExpertModel
    /\ fp = NewFeedbackPredictor
    /\ NoRoutes
    /\ rm = NewRecommendationModel
    /\ model_status = FALSE
    /\ brm = NewRecommendationModel
    /\ user_recommender = NewUserRecommender
    /\ \/ /\ service = "ml"
          /\ users = MlUsers
          /\ topic_trained = FALSE
       \/ /\ service = "topic"
          /\ users = MlUsers
          /\ topic_trained \in BOOLEAN      \* the import-time train() may have raised
       \/ /\ service = "backend"
          /\ users \in BackendUsers
          /\ topic_trained = FALSE

\* ml package, MLService.train_recommendation_model(users_data)
TrainRecommendationModel(users_data, fault) ==
    LET run == train_user_similarity_model(rm, users_data, fault)
    IN  /\ service = "ml"
        /\ rm' = run[2]
        /\ model_status' = run[1]
        /\ resp' = [op |-> "train_recommendation_model", ok |-> run[1],
                    size |-> Len(users_data), fault |-> fault,
                    untrained_before |-> Untrained(rm) /\ ~model_status]
        /\ UNCHANGED <<matches_collection, requests, users, catalog, em, fp, topic_trained, brm, user_recommender, service>>

\* the last operation was a training call with fewer than MinTrainUsers users
\* on an untrained index
AfterShortTrain ==
    /\ resp.op = "train_recommendation_model"
    /\ resp.size < MinTrainUsers
    /\ resp.untrained_before

\* ml package, MLService.get_user_recommendations(users[i], pool, k)
GetUserRecommendations(i, pool, k, fault) ==
    \E out \in get_user_recommendations(rm, model_status, users[i], pool, k, fault) :
        /\ service = "ml"
        /\ rm' = out[1]
        /\ model_status' = out[2]
        /\ resp' = [op |-> "get_user_recommendations", user_id |-> users[i].id,
                    pool |-> IdsOf(pool), k |-> k,
                    after_short_train |-> AfterShortTrain] @@ out[3]
        /\ UNCHANGED <<matches_collection, requests, users, catalog, em, fp, topic_trained, brm, user_recommender, service>>

\* ml package, RecommendationModel.get_hybrid_recommendations(users[i], pool, k)
GetHybridRecommendations(i, pool, k) ==
    \E ids \in get_hybrid_recommendations(rm, users[i], pool, k) :
        /\ service = "ml"
        /\ resp' = [op |-> "get_hybrid_recommendations", user_id |-> users[i].id,
                    pool |-> IdsOf(pool), k |-> k, ids |-> ids]
        /\ UNCHANGED <<matches_collection, requests, users, catalog, em, fp, index, service>>

\* ml package, topic_model.predict_topic(text)
PredictTopic(text, fault) ==
    LET out == predict_topic(topic_trained, text, fault)
    IN  /\ service = "topic"
        /\ topic_trained' = out[1]
        /\ resp' = [op |-> "predict_topic", text |-> text] @@ out[2]
        /\ UNCHANGED <<matches_collection, requests, users, catalog, em, fp, rm, model_status, brm, user_recommender, service>>

\* backend, POST /ml/train (train_ml_models)
TrainMlModels(fault, simple_fault) ==
    LET active == ActiveUsers(users)
        adv == IF recommendation_model_imported
               THEN train_user_similarity_model(brm, active, fault)
               ELSE <<FALSE, brm>>
        simple == train_user_recommender(user_recommender, active, simple_fault)
    IN  /\ service = "backend"
        /\ brm' = adv[2]
        /\ user_recommender' = simple[2]
        /\ resp' = [op |-> "train_ml_models", advanced_recommendation |-> adv[1],
                    simple_recommendation |-> simple[1], simple_fault |-> simple_fault]
        /\ UNCHANGED <<matches_collection, requests, users, catalog, em, fp, rm, model_status, topic_trained, service>>

\* backend, ml_service.recommend_users(users[i], k)
RecommendUsers(i, k) ==
    \E out \in ml_recommend_users(brm, user_recommender, users[i], k) :
        /\ service = "backend"
        /\ brm' = out[1]
        /\ resp' = [op |-> "recommend_users", user_id |-> users[i].id, k |-> k] @@ out[2]
        /\ UNCHANGED <<matches_collection, requests, users, catalog, em, fp, rm, model_status, topic_trained, user_recommender, service>>

\* backend, MatchmakingService.find_ml_recommendations(users[i].id, limit)
FindMlRecommendations(i, limit, fault) ==
    \E out \in find_ml_recommendations(brm, user_recommender, users, users[i], limit, fault) :
        /\ service = "backend"
        /\ brm' = out[1]
        /\ user_recommender' = out[2]
        /\ resp' = [op |-> "find_ml_recommendations", user_id |-> users[i].id,
                    limit |-> limit] @@ out[3]
        /\ UNCHANGED <<matches_collection, requests, users, catalog, em, fp, rm, model_status, topic_trained, service>>

NextIndex ==
    \/ \E users_data \in Pools :
         \E fault \in FaultsIf(Len(users_data) >= MinTrainUsers) :
           TrainRecommendationModel(users_data, fault)
    \/ \E i \in 1..Len(users), pool \in Pools, k \in 1..MaxK :
         \E fault \in FaultsIf(~model_status /\ Len(pool) >= MinTrainUsers) :
           GetUserRecommendations(i, pool, k, fault)
    \/ \E i \in 1..Len(users), pool \in Pools, k \in 1..MaxK :
           GetHybridRecommendations(i, pool, k)
    \/ \E text \in Texts :
         \E fault \in (IF topic_trained THEN {"none"} ELSE TopicFaults) :
           PredictTopic(text, fault)
    \/ \E fault \in FaultsIf(recommendation_model_imported),
          simple_fault \in Faults \ {"scale"} :
           TrainMlModels(fault, simple_fault)
    \/ \E i \in 1..Len(users), k \in 1..MaxK : RecommendUsers(i, k)
    \/ \E i \in 1..Len(users), limit \in 1..MaxK :
         \E fault \in FaultsIf(~user_recommender.present) \ {"scale"} :
           FindMlRecommendations(i, limit, fault)

SpecIndex == InitIndex /\ [][NextIndex]_vars

----------------------------------------------------------------------------
(* The rule-based scorer on its own *)

\* bound: the number of documents of a candidate list
RulePoolSize == 4

ScienceProfile ==
    [BaseProfile EXCEPT !.field_of_study = "science", !.interests = {"python"},
                        !.academic_level = "undergraduate"]

StrangerProfile ==
    [BaseProfile EXCEPT !.field_of_study = "IT", !.interests = {},
                        !.academic_level = "postdoc"]

RuleProfiles ==
    {BaseProfile, ScienceProfile, StrangerProfile, PeerProfile, EmptyProfile,
     [MentorProfile EXCEPT !.points = 150]}

\* every candidate list over RuleProfiles, the documents numbered in order
InitRule ==
    /\ users \in {[i \in 1..RulePoolSize |-> [ps[i] EXCEPT !.id = i]] :
                     ps \in [1..RulePoolSize -> RuleProfiles]}
    /\ resp = NoResp
    /\ rm = NewRecommendationModel
    /\ model_status = FALSE
    /\ topic_trained = FALSE
    /\ brm = NewRecommendationModel
    /\ user_recommender = NewUserRecommender
    /\ service = "ml"
    /\ catalog = <<>>
    /\ em = NewExpertModel
    /\ fp = NewFeedbackPredictor
    /\ NoRoutes

\* MLService._rule_based_user_matching(users[i], users, k)
RuleBasedUserMatching(i, k) ==
    /\ resp = NoResp
    /\ resp' = [op |-> "rule_based_user_matching", user_id |-> users[i].id, k |-> k,
                items |-> rule_based_user_matching(users[i], users, k)]
    /\ UNCHANGED <<matches_collection, requests, users, catalog, em, fp, index, service>>

NextRule == \E i \in 1..Len(users), k \in 1..MaxK : RuleBasedUserMatching(i, k)

SpecRule == InitRule /\ [][NextRule]_vars

----------------------------------------------------------------------------
(***************************************************************************)
(* The resource ranker                                                     *)
(***************************************************************************)
\* RecommendationModel._level_to_number(level): an unknown level counts as 2
level_to_number(level) ==
    CASE level = "undergraduate" -> 1
      [] level = "graduate" -> 2
      [] level = "phd" -> 3
      [] level = "postdoc" -> 4
      [] OTHER -> 2

\* The score of one resource in thousandths.  average_rating is the stored
\* rating in stars and popularity_score is kept in tenths; the rating is
\* multiplied by 0.2 as it is stored.
resource_score(user_profile, resource) ==
    LET topic_relevance ==
            Cardinality((user_profile.interests \cup user_profile.weaknesses)
                            \cap resource.topics)
        level_bonus ==
            IF resource.level = user_profile.academic_level THEN 300
            ELSE IF Abs(level_to_number(resource.level)
                          - level_to_number(user_profile.academic_level)) = 1 THEN 200
            ELSE 0
    IN  topic_relevance * 400 + level_bonus
          + resource.average_rating * 200 + resource.popularity_score * 10

\* recommend_learning_resources(user_profile, available_resources, n): the
\* possible results.  The list is sorted by score, highest first, and cut to
\* n entries.  Resources whose decimal scores are equal may come in either
\* order: the float sums of equal decimal scores can differ in the last bit.
recommend_learning_resources(user_profile, available_resources, n_recommendations) ==
    LET sc(k) == resource_score(user_profile, available_resources[k])
        N == Len(available_resources)
        orders == {f \in InjectiveSeqs(1..N, N) :
                      \A a, b \in 1..N : a < b => sc(f[a]) >= sc(f[b])}
    IN  {[k \in 1..Min(n_recommendations, N) |->
            [resource_id |-> available_resources[f[k]].id,
             relevance_score |-> sc(f[k]),
             recommendation_type |-> "content_based"]] : f \in orders}

ResourceTopics == {"python", "cooking"}

Resources ==
    [id : {0}, topics : SUBSET ResourceTopics, level : {"graduate", "phd", "postdoc"},
     average_rating : {1, 5}, popularity_score : {0, 10}]

\* one user and every list of two resources, the documents numbered in order
InitResources ==
    /\ users \in {<<BaseProfile>>, <<[BaseProfile EXCEPT !.academic_level = "undergraduate"]>>}
    /\ catalog \in {<<[r1 EXCEPT !.id = 1], [r2 EXCEPT !.id = 2]>> :
                    r1 \in Resources, r2 \in Resources}
    /\ resp = NoResp
    /\ rm = NewRecommendationModel
    /\ model_status = FALSE
    /\ topic_trained = FALSE
    /\ brm = NewRecommendationModel
    /\ user_recommender = NewUserRecommender
    /\ service = "ml"
    /\ em = NewExpertModel
    /\ fp = NewFeedbackPredictor
    /\ NoRoutes

\* RecommendationModel.recommend_learning_resources(users[1], catalog, n)
RecommendLearningResources(n) ==
    /\ resp = NoResp
    /\ \E r \in recommend_learning_resources(users[1], catalog, n) :
          resp' = [op |-> "recommend_learning_resources", user_id |-> users[1].id,
                   k |-> n, items |-> r]
    /\ UNCHANGED <<matches_collection, requests, users, catalog, em, fp, index, service>>

NextResources == \E n \in 1..MaxK : RecommendLearningResources(n)

SpecResources == InitResources /\ [][NextResources]_vars

----------------------------------------------------------------------------
(***************************************************************************)
(* The expert matching model                                               *)
(*                                                                         *)
(* A student document is [id, interests, weaknesses, field_of_study,       *)
(* academic_level] and an expert document [id, expertise_areas,            *)
(* field_of_study, years_experience], the lists as sequences of one-word   *)
(* terms; experts carry no skills, job title or company and students no    *)
(* bio.  A profile text is kept as its sequence of tokens.                 *)
(***************************************************************************)
FieldTokens(field) == IF field = "" THEN <<>> ELSE <<field>>

prepare_expert_profile_text(expert) ==
    expert.expertise_areas \o FieldTokens(expert.field_of_study)

prepare_student_profile_text(student) ==
    student.interests \o student.weaknesses \o FieldTokens(student.field_of_study)

\* the features of a text under ngram_range=(1, 2): its words and its pairs of
\* adjacent words
Ngrams(tokens) ==
    {<<tokens[i]>> : i \in 1..Len(tokens)}
        \cup {<<tokens[i], tokens[i + 1]>> : i \in 1..(Len(tokens) - 1)}

\* the vocabulary fitted on a corpus of experts
ExpertVocabulary(experts) ==
    UNION {Ngrams(prepare_expert_profile_text(experts[i])) : i \in 1..Len(experts)}

\* the words of the expert texts in alphabetical order; the vocabulary is
\* indexed in the alphabetical order of its features
TokenOrder == <<"law", "mathematics", "physics", "python", "stats">>

TokenRank(t) == CHOOSE i \in 1..Len(TokenOrder) : TokenOrder[i] = t

GramLess(f, g) ==
    \/ TokenRank(f[1]) < TokenRank(g[1])
    \/ /\ f[1] = g[1]
       /\ \/ Len(f) < Len(g)
          \/ Len(f) = Len(g) /\ Len(f) > 1 /\ TokenRank(f[2]) < TokenRank(g[2])

\* a feature has idf 1 when every text of the corpus holds it; in a corpus of
\* two texts a feature of one text only has idf 1 + ln(3/2)
InEveryText(experts, f) ==
    \A i \in 1..Len(experts) : f \in Ngrams(prepare_expert_profile_text(experts[i]))

\* 40 * idf^2, as IdfSq40
ExpertIdfSq40(experts, f) == IF InEveryText(experts, f) THEN 40 ELSE 79

\* the features of one row in index order, each marked by whether its idf is 1
IdfPattern(experts, feats) ==
    LET order == CHOOSE s \in InjectiveSeqs(feats, Cardinality(feats)) :
                    \A a, b \in 1..Cardinality(feats) : a < b => GramLess(s[a], s[b])
    IN  [k \in 1..Cardinality(feats) |-> InEveryText(experts, order[k])]

\* The rows whose cosine with an identical row is 1.0000000000000002 in IEEE
\* double arithmetic (the row is L2-normalised by the vectorizer and again by
\* cosine_similarity, and the products are summed in index order); for the
\* other rows of the bounded corpora it is 1.0.
SelfCosineRoundsUp ==
    {<<TRUE, TRUE, TRUE>>, <<TRUE, TRUE, TRUE, TRUE, TRUE>>,
     <<FALSE, FALSE, TRUE>>, <<TRUE, FALSE, FALSE, TRUE, TRUE>>,
     <<FALSE, FALSE, FALSE, TRUE, FALSE>>, <<FALSE, FALSE, FALSE, FALSE, FALSE>>}

\* cosine_similarity(student_vector, expert_vectors)[idx] for the vectorizer
\* fitted on experts; of different rows, rounded down to 1/100
text_similarity(experts, student, idx) ==
    LET vocabulary == ExpertVocabulary(experts)
        sv == Ngrams(prepare_student_profile_text(student)) \cap vocabulary
        ev == Ngrams(prepare_expert_profile_text(experts[idx]))
        w == [f \in vocabulary |-> ExpertIdfSq40(experts, f)]
        dot == SumOver(w, sv \cap ev)
        n1 == SumOver(w, sv)
        n2 == SumOver(w, ev)
    IN  IF sv = {} \/ ev = {} THEN 0
        ELSE IF sv = ev
             THEN IF IdfPattern(experts, ev) \in SelfCosineRoundsUp THEN UNIT + 1 ELSE UNIT
        ELSE ISqrt((dot * dot * 10000) \div (n1 * n2)) * (UNIT \div 100)

calculate_interest_overlap_score(student, expert) ==
    LET student_needs == SeqRange(student.interests) \cup SeqRange(student.weaknesses)
        expert_capabilities == SeqRange(expert.expertise_areas)
    IN  IF student_needs = {} \/ expert_capabilities = {} THEN 0
        ELSE Ratio(Cardinality(student_needs \cap expert_capabilities),
                   Cardinality(student_needs \cup expert_capabilities))

level_experience_map(student_level) ==
    CASE student_level = "undergraduate" -> <<0, 5>>
      [] student_level = "graduate" -> <<2, 10>>
      [] student_level = "phd" -> <<5, 20>>
      [] student_level = "postdoc" -> <<8, 30>>
      [] OTHER -> <<0, 100>>

calculate_experience_compatibility(student, expert) ==
    LET band == level_experience_map(student.academic_level)
    IN  IF band[1] <= expert.years_experience /\ expert.years_experience <= band[2]
        THEN UNIT
        ELSE IF expert.years_experience < band[1] THEN (UNIT * 7) \div 10
        ELSE (UNIT * 9) \div 10

related_fields ==
    {<<"computer science", {"software engineering", "data science", "ai", "machine learning"}>>,
     <<"mathematics", {"statistics", "data science", "physics"}>>,
     <<"physics", {"engineering", "mathematics"}>>,
     <<"biology", {"chemistry", "biotechnology", "medicine"}>>,
     <<"chemistry", {"biology", "biochemistry"}>>,
     <<"business", {"economics", "finance", "marketing"}>>}

\* str.lower() on the field strings of the model
Lower(field) ==
    CASE field = "Physics" -> "physics"
      [] field = "Data Science" -> "data science"
      [] OTHER -> field

\* the table lookup of calculate_field_alignment on two lower-cased fields
FieldsRelated(student_field, expert_field) ==
    \E p \in related_fields :
        \/ IsSubstring(p[1], student_field)
             /\ \E r \in p[2] : IsSubstring(r, expert_field)
        \/ IsSubstring(p[1], expert_field)
             /\ \E r \in p[2] : IsSubstring(r, student_field)

\* the early return on a missing field left out
field_alignment_without_default(student, expert) ==
    LET student_field == Lower(student.field_of_study)
        expert_field == Lower(expert.field_of_study)
    IN  IF student_field = expert_field THEN UNIT
        ELSE IF IsSubstring(student_field, expert_field)
                  \/ IsSubstring(expert_field, student_field) THEN (UNIT * 8) \div 10
        ELSE IF FieldsRelated(student_field, expert_field) THEN (UNIT * 6) \div 10
        ELSE (UNIT * 3) \div 10

calculate_field_alignment(student, expert) ==
    LET student_field == Lower(student.field_of_study)
        expert_field == Lower(expert.field_of_study)
    IN  IF student_field = "" \/ expert_field = "" THEN UNIT \div 2
        ELSE IF student_field = expert_field THEN UNIT
        ELSE IF IsSubstring(student_field, expert_field)
                  \/ IsSubstring(expert_field, student_field) THEN (UNIT * 8) \div 10
        ELSE IF FieldsRelated(student_field, expert_field) THEN (UNIT * 6) \div 10
        ELSE (UNIT * 3) \div 10

\* one entry of matches: the weighted combination and its breakdown
expert_match(m, student, idx) ==
    LET expert == m.expert_profiles[idx]
        text_score == text_similarity(m.fitted_on, student, idx)
        interest_score == calculate_interest_overlap_score(student, expert)
        experience_score == calculate_experience_compatibility(student, expert)
        field_score == calculate_field_alignment(student, expert)
    IN  [expert_id |-> expert.id,
         match_score |-> 40 * interest_score + 30 * text_score
                           + 20 * field_score + 10 * experience_score,
         score_breakdown |-> [interest_overlap |-> interest_score,
                              text_similarity |-> text_score,
                              field_alignment |-> field_score,
                              experience_compatibility |-> experience_score],
         matched_interests |-> SeqRange(student.interests)
                                  \cap SeqRange(expert.expertise_areas)]

\* ExpertMatchingModel.train(experts): the returned flag and the model after
\* the call.  fit_transform raises ValueError (empty vocabulary) when no
\* expert text holds a word; expert_profiles is assigned before it.
expert_train(m, experts) ==
    IF Len(experts) < 1 THEN <<FALSE, m>>
    ELSE IF ExpertVocabulary(experts) = {}
         THEN <<FALSE, [m EXCEPT !.expert_profiles = experts, !.is_trained = FALSE]>>
    ELSE <<TRUE, [is_trained |-> TRUE, expert_profiles |-> experts, fitted_on |-> experts]>>

\* ExpertMatchingModel.find_matches(student, top_k): the possible results.
\* Entries whose decimal scores are equal may come in either order.
find_matches(m, student, top_k) ==
    IF ~m.is_trained THEN {<<>>}
    ELSE LET N == Len(m.expert_profiles)
             matches == [idx \in 1..N |-> expert_match(m, student, idx)]
             orders == {f \in InjectiveSeqs(1..N, N) :
                           \A a, b \in 1..N :
                               a < b => matches[f[a]].match_score >= matches[f[b]].match_score}
         IN  {[k \in 1..Min(top_k, N) |-> matches[f[k]]] : f \in orders}

ExpertTopics == {<<>>, <<"python">>, <<"python", "stats">>}

Experts ==
    [id : {0}, expertise_areas : ExpertTopics,
     field_of_study : {"", "physics", "mathematics", "law"}, years_experience : {0, 3, 40}]

\* an expert without a word in the profile, one of another field, and a plain one
SecondExperts ==
    {[id |-> 0, expertise_areas |-> <<>>, field_of_study |-> "", years_experience |-> 3],
     [id |-> 0, expertise_areas |-> <<"stats">>, field_of_study |-> "law", years_experience |-> 3],
     [id |-> 0, expertise_areas |-> <<"python">>, field_of_study |-> "physics", years_experience |-> 3]}

Students ==
    [id : {0}, interests : ExpertTopics, weaknesses : {<<>>, <<"sql">>},
     field_of_study : {"", "physics", "astrophysics"}, academic_level : {"graduate"}]

\* one student and every pair of experts, the documents numbered in order
InitExperts ==
    /\ users \in {<<s>> : s \in Students}
    /\ catalog \in {<<[e1 EXCEPT !.id = 1], [e2 EXCEPT !.id = 2]>> :
                       e1 \in Experts, e2 \in SecondExperts}
    /\ em = NewExpertModel
    /\ fp = NewFeedbackPredictor
    /\ NoRoutes
    /\ resp = NoResp
    /\ rm = NewRecommendationModel
    /\ model_status = FALSE
    /\ topic_trained = FALSE
    /\ brm = NewRecommendationModel
    /\ user_recommender = NewUserRecommender
    /\ service = "ml"

\* the corpora a caller trains on: the experts of the catalog from a to b
ExpertCorpora == {SubSeq(catalog, a, b) : a \in 1..2, b \in 0..2}

\* expert_matching_model.train(experts)
ExpertTrain(experts) ==
    LET run == expert_train(em, experts)
    IN  /\ em' = run[2]
        /\ resp' = [op |-> "expert_train", experts |-> experts, ok |-> run[1],
                    before |-> em]
        /\ UNCHANGED <<matches_collection, requests, users, catalog, fp, index, service>>

\* expert_matching_model.find_matches(users[1], top_k)
FindMatches(top_k) ==
    /\ \E r \in find_matches(em, users[1], top_k) :
          resp' = [op |-> "find_matches", k |-> top_k, items |-> r]
    /\ UNCHANGED <<matches_collection, requests, users, catalog, em, fp, index, service>>

NextExperts ==
    \/ \E experts \in ExpertCorpora : ExpertTrain(experts)
    \/ \E top_k \in 1..MaxK : FindMatches(top_k)

SpecExperts == InitExperts /\ [][NextExperts]_vars

----------------------------------------------------------------------------
(***************************************************************************)
(* The feedback predictor                                                  *)
(*                                                                         *)
(* A pipeline attribute is "None", "unfitted" (assigned, fit not           *)
(* completed) or "fitted".  Confidences and overall scores are in          *)
(* hundredths, label scores in tenths.                                     *)
(***************************************************************************)
FeedbackFaults == {"none", "fit", "cv"}

\* train_sentiment_model / train_quality_model: <<returned flag, pipeline>>.
\* The pipeline is assigned before fit; cross_val_score runs after it.
train_feedback_pipeline(fault) ==
    CASE fault = "fit" -> <<FALSE, "unfitted">>
      [] fault = "cv" -> <<FALSE, "fitted">>
      [] OTHER -> <<TRUE, "fitted">>

train_all_models(p, sentiment_fault, quality_fault) ==
    LET sentiment == train_feedback_pipeline(sentiment_fault)
        quality == train_feedback_pipeline(quality_fault)
    IN  [sentiment_model |-> sentiment[2], quality_model |-> quality[2],
         is_trained |-> sentiment[1] /\ quality[1]]

FeedbackTexts == {"", "  ", "42", "great session"}

\* preprocess_text(text).strip() is empty: nothing but letters is kept
ProcessedBlank(text) == text \in {"", "  ", "42"}

sentiment_labels == {"negative", "neutral", "positive"}

quality_labels == {"poor", "average", "good", "excellent"}

\* the highest class probability of a fitted pipeline, in hundredths
Confidences == {40, 80}

\* predict_sentiment / predict_quality: the possible results of a pipeline
\* with the given labels and default label
predict_label(pipeline, labels, default, text) ==
    IF pipeline = "None"
    THEN {[label |-> default, confidence |-> 0, error |-> "Model not trained"]}
    ELSE IF ProcessedBlank(text)
         THEN {[label |-> default, confidence |-> 0, error |-> "Empty text"]}
    ELSE IF pipeline = "unfitted"
         THEN {[label |-> default, confidence |-> 0, error |-> "NotFittedError"]}
    ELSE {[label |-> l, confidence |-> c, error |-> ""] : l \in labels, c \in Confidences}

predict_sentiment(p, text) ==
    predict_label(p.sentiment_model, sentiment_labels, "neutral", text)

predict_quality(p, text) ==
    predict_label(p.quality_model, quality_labels, "average", text)

sentiment_scores(label) ==
    CASE label = "negative" -> 10
      [] label = "neutral" -> 30
      [] label = "positive" -> 50

quality_scores(label) ==
    CASE label = "poor" -> 10
      [] label = "average" -> 25
      [] label = "good" -> 40
      [] label = "excellent" -> 50

\* the ratings a caller passes: None, a number of stars, or a value that is
\* not a number
Ratings == {"None", "n/a", "1.0", "5.0"}

Stars(numerical_rating) == IF numerical_rating = "1.0" THEN 1 ELSE 5

\* _calculate_overall_score in hundredths; every quotient below is exact for
\* the confidences of the model, so round(., 2) changes nothing.  A rating
\* that cannot be added raises TypeError, and the handler returns 3.0.
calculate_overall_score(sentiment_result, quality_result, numerical_rating) ==
    LET twice_ml == sentiment_scores(sentiment_result.label) * sentiment_result.confidence
                      + quality_scores(quality_result.label) * quality_result.confidence
    IN  IF numerical_rating = "None" THEN twice_ml \div 20
        ELSE IF numerical_rating = "n/a" THEN 300
        ELSE (twice_ml + 2000 * Stars(numerical_rating)) \div 40

\* analyze_feedback_comprehensive(text, rating): the possible analyses
analyze_feedback_comprehensive(p, text, numerical_rating) ==
    {[sentiment |-> s.label, quality |-> q.label,
      sentiment_confidence |-> s.confidence, quality_confidence |-> q.confidence,
      overall_score |-> calculate_overall_score(s, q, numerical_rating)] :
        s \in predict_sentiment(p, text), q \in predict_quality(p, text)}

\* a fresh predictor, or the topic model after its import
InitClassifiers ==
    /\ users = <<>>
    /\ catalog = <<>>
    /\ em = NewExpertModel
    /\ fp = NewFeedbackPredictor
    /\ NoRoutes
    /\ resp = NoResp
    /\ rm = NewRecommendationModel
    /\ model_status = FALSE
    /\ brm = NewRecommendationModel
    /\ user_recommender = NewUserRecommender
    /\ \/ service = "feedback" /\ topic_trained = FALSE
       \/ service = "topic" /\ topic_trained \in BOOLEAN

\* feedback_predictor.train_all_models(), also run at import
TrainAllModels(sentiment_fault, quality_fault) ==
    /\ service = "feedback"
    /\ fp' = train_all_models(fp, sentiment_fault, quality_fault)
    /\ resp' = [op |-> "train_all_models", ok |-> fp'.is_trained]
    /\ UNCHANGED <<matches_collection, requests, users, catalog, em, index, service>>

\* feedback_predictor.predict_sentiment(text)
PredictSentiment(text) ==
    /\ service = "feedback"
    /\ \E r \in predict_sentiment(fp, text) :
          resp' = [op |-> "predict_sentiment", text |-> text,
                   fitted |-> fp.sentiment_model = "fitted"] @@ r
    /\ UNCHANGED <<matches_collection, requests, users, catalog, em, fp, index, service>>

\* feedback_predictor.predict_quality(text)
PredictQuality(text) ==
    /\ service = "feedback"
    /\ \E r \in predict_quality(fp, text) :
          resp' = [op |-> "predict_quality", text |-> text,
                   fitted |-> fp.quality_model = "fitted"] @@ r
    /\ UNCHANGED <<matches_collection, requests, users, catalog, em, fp, index, service>>

\* feedback_predictor.analyze_feedback_comprehensive(text, rating)
AnalyzeFeedbackComprehensive(text, numerical_rating) ==
    /\ service = "feedback"
    /\ \E r \in analyze_feedback_comprehensive(fp, text, numerical_rating) :
          resp' = [op |-> "analyze_feedback_comprehensive", text |-> text,
                   rating |-> numerical_rating] @@ r
    /\ UNCHANGED <<matches_collection, requests, users, catalog, em, fp, index, service>>

NextClassifiers ==
    \/ \E sf \in FeedbackFaults, qf \in FeedbackFaults : TrainAllModels(sf, qf)
    \/ \E text \in FeedbackTexts : PredictSentiment(text)
    \/ \E text \in FeedbackTexts : PredictQuality(text)
    \/ \E text \in FeedbackTexts, r \in Ratings : AnalyzeFeedbackComprehensive(text, r)
    \/ \E text \in Texts :
         \E fault \in (IF topic_trained THEN {"none"} ELSE TopicFaults) :
           PredictTopic(text, fault)

SpecClassifiers == InitClassifiers /\ [][NextClassifiers]_vars

----------------------------------------------------------------------------
(* The users collection changing under a trained simple recommender *)

\* the document auth_routes.register inserts: UserModel with its defaults
NewUserDocument == [EmptyProfile EXCEPT !.id = Len(IndexUsers) + 1]

\* bound: the number of leading documents whose status is updated
MaxDrift == 2

InitDrift ==
    /\ NothingTrained
    /\ resp = NoResp
    /\ users = IndexUsers

\* auth_routes.register: insert_one appends a document to the collection
Register ==
    /\ service = "backend"
    /\ \A k \in 1..Len(users) : users[k].id # NewUserDocument.id
    /\ users' = Append(users, NewUserDocument)
    /\ resp' = [op |-> "register", user_id |-> NewUserDocument.id]
    /\ UNCHANGED <<matches_collection, requests, catalog, em, fp, index, service>>

\* admin_routes.update_user_status and user_routes.delete_user_account:
\* update_one sets is_active; nothing is modified when it already has the value
UpdateUserStatus(i, is_active) ==
    /\ service = "backend"
    /\ users[i].is_active # is_active
    /\ users' = [users EXCEPT ![i].is_active = is_active]
    /\ resp' = [op |-> "update_user_status", user_id |-> users[i].id]
    /\ UNCHANGED <<matches_collection, requests, catalog, em, fp, index, service>>

NextDrift ==
    \/ Register
    \/ \E i \in 1..MaxDrift, is_active \in BOOLEAN : UpdateUserStatus(i, is_active)
    \/ \E i \in 1..Len(users), limit \in 1..MaxK :
         \E fault \in FaultsIf(~user_recommender.present) \ {"scale"} :
           FindMlRecommendations(i, limit, fault)

SpecDrift == InitDrift /\ [][NextDrift]_vars

----------------------------------------------------------------------------
(* RecommendationModel.recommend_users with an exclusion list *)

\* a corpus with more users than one query asks kneighbors for
ExcludeUsers == IndexUsers \o <<NewUserDocument>>

\* the exclusion lists of the callers: the ids of the documents up to any point
ExcludeLists == {{users[j].id : j \in 1..b} : b \in 0..Len(users)}

InitExclude ==
    /\ resp = NoResp
    /\ catalog = <<>>
    /\ em = NewExpertModel
    /\ fp = NewFeedbackPredictor
    /\ NoRoutes
    /\ rm = NewRecommendationModel
    /\ model_status = FALSE
    /\ brm = NewRecommendationModel
    /\ user_recommender = NewUserRecommender
    /\ topic_trained = FALSE
    /\ service = "ml"
    /\ users = ExcludeUsers

\* ml package, recommendation_model.recommend_users(users[i], k, exclude_ids)
RecommendUsersExcluding(i, k, exclude_ids) ==
    \E recs \in rm_recommend_users(rm, users[i], k, exclude_ids) :
        /\ service = "ml"
        /\ resp' = [op |-> "rm_recommend_users", user_id |-> users[i].id, k |-> k,
                    exclude_ids |-> exclude_ids, ids |-> recs]
        /\ UNCHANGED <<matches_collection, requests, users, catalog, em, fp, index, service>>

NextExclude ==
    \/ \E users_data \in Pools :
         \E fault \in FaultsIf(Len(users_data) >= MinTrainUsers) :
           TrainRecommendationModel(users_data, fault)
    \/ \E i \in 1..Len(users), k \in 1..MaxK, exclude_ids \in ExcludeLists :
           RecommendUsersExcluding(i, k, exclude_ids)

SpecExclude == InitExclude /\ [][NextExclude]_vars

----------------------------------------------------------------------------
(* The handlers of match_routes.py on the matches collection *)

\* the users collection of the routes
RouteUsers == SubSeq(IndexUsers, 1, 3)

\* the match_type strings a MatchCreate body carries: a declared one and
\* the one the comment of MatchModel.match_type names
CreateTypes == {"mentor_mentee", "study_group"}

\* bound: the largest max_members of a StudyGroupCreate body
MaxMembers == 2

\* bound: the sessions of a match when a schedule_session request arrives
MaxSessions == 1

IsMatch(doc) == "mentor_id" \in DOMAIN doc

IsGroup(doc) == "member_ids" \in DOMAIN doc

\* a finished request: the status an HTTPException raised inside the handler
\* carries ("" if none was raised) and the status the caller receives
Done(req, raised, status_code) ==
    [req EXCEPT !.pc = "done", !.raised = raised, !.status_code = status_code]

\* create_match: <<collection afterwards, raised, received>>.  The 404 of a
\* missing mentee is raised inside the try block, and `except Exception`
\* answers it with 400; a ValidationError of MatchScore is not caught.
create_match(collection, docs, current_user, mentee_id, match_type) ==
    LET found == {u \in SeqRange(docs) : u.id = mentee_id}
    IN  IF found = {} THEN <<collection, "404", "400">>
        ELSE LET mentee == CHOOSE u \in found : TRUE
                 match_score == calculate_match_score(mentee, current_user, match_type)
             IN  IF match_score.error # "" THEN <<collection, "", "500">>
                 ELSE <<Append(collection,
                               [mentor_id |-> current_user.id, mentee_id |-> mentee_id,
                                match_type |-> match_type, status |-> "pending",
                                sessions |-> 0]),
                        "", "200">>

\* the filter of accept_match and decline_match
pending_match_of(collection, match_id, user_id) ==
    /\ match_id \in 1..Len(collection)
    /\ IsMatch(collection[match_id])
    /\ user_id \in {collection[match_id].mentor_id, collection[match_id].mentee_id}
    /\ collection[match_id].status = "pending"

\* an update that does not ask for the pending status
update_any_status(collection, match_id, user_id, new_status) ==
    IF /\ match_id \in 1..Len(collection)
       /\ IsMatch(collection[match_id])
       /\ user_id \in {collection[match_id].mentor_id, collection[match_id].mentee_id}
       /\ collection[match_id].status # new_status
    THEN <<[collection EXCEPT ![match_id].status = new_status], 1>>
    ELSE <<collection, 0>>

\* update_one of accept_match and decline_match: <<collection afterwards,
\* modified_count>>; one atomic operation of the database
update_match_status(collection, match_id, user_id, new_status) ==
    IF pending_match_of(collection, match_id, user_id)
    THEN <<[collection EXCEPT ![match_id].status = new_status], 1>>
    ELSE <<collection, 0>>

\* the filter of the find_one of schedule_session
accepted_match_of(collection, match_id, user_id) ==
    /\ match_id \in 1..Len(collection)
    /\ IsMatch(collection[match_id])
    /\ user_id \in {collection[match_id].mentor_id, collection[match_id].mentee_id}
    /\ collection[match_id].status = "accepted"

\* the checks of join_study_group on the document its find_one returned:
\* <<raised, received>>, both "" when the handler goes on to the update
join_checks(collection, group_id, user_id) ==
    IF group_id \notin 1..Len(collection) THEN <<"404", "500">>
    ELSE LET group == collection[group_id]
         IN  IF ~IsGroup(group) THEN <<"", "500">>          \* KeyError: 'max_members'
             ELSE IF Len(group.member_ids) >= group.max_members THEN <<"400", "500">>
             ELSE IF user_id \in SeqRange(group.member_ids) THEN <<"400", "500">>
             ELSE <<"", "">>

InitRoutes ==
    /\ NothingTrained
    /\ resp = NoResp
    /\ users = RouteUsers

Idle(c) == requests[c].pc \in {"idle", "done"}

\* a request arrives on connection c: the handler runs up to its first await
Receive(c, op, i, target) ==
    /\ Idle(c)
    /\ requests' = [requests EXCEPT ![c] =
                       [pc |-> "received", op |-> op, user_id |-> users[i].id,
                        target |-> target, raised |-> "", status_code |-> ""]]
    /\ UNCHANGED <<users, catalog, em, fp, resp, index, matches_collection, service>>

\* POST /create by users[i]; the model follows one document of the collection
CreateMatch(c, i, mentee_id, match_type) ==
    LET out == create_match(matches_collection, users, users[i], mentee_id, match_type)
    IN  /\ Idle(c)
        /\ out[1] # matches_collection => matches_collection = <<>>
        /\ matches_collection' = out[1]
        /\ requests' = [requests EXCEPT ![c] =
                           [pc |-> "done", op |-> "create_match", user_id |-> users[i].id,
                            target |-> mentee_id, raised |-> out[2], status_code |-> out[3]]]
        /\ UNCHANGED <<users, catalog, em, fp, resp, index, service>>

\* the update_one of accept_match / decline_match and the response
SetStatus(c, op, new_status) ==
    LET req == requests[c]
        out == update_match_status(matches_collection, req.target, req.user_id, new_status)
    IN  /\ req.pc = "received" /\ req.op = op
        /\ matches_collection' = out[1]
        /\ requests' = [requests EXCEPT ![c] =
                           IF out[2] = 0 THEN Done(req, "404", "500")
                           ELSE Done(req, "", "200")]
        /\ UNCHANGED <<users, catalog, em, fp, resp, index, service>>

AcceptMatch(c) == SetStatus(c, "accept_match", "accepted")

DeclineMatch(c) == SetStatus(c, "decline_match", "declined")

\* schedule_session up to its second await
ScheduleSessionFind(c) ==
    LET req == requests[c]
    IN  /\ req.pc = "received" /\ req.op = "schedule_session"
        /\ requests' = [requests EXCEPT ![c] =
                           IF accepted_match_of(matches_collection, req.target, req.user_id)
                           THEN [req EXCEPT !.pc = "found"]
                           ELSE Done(req, "404", "500")]
        /\ UNCHANGED <<users, catalog, em, fp, resp, index, matches_collection, service>>

\* the $push of schedule_session and the response
ScheduleSessionPush(c) ==
    LET req == requests[c]
    IN  /\ req.pc = "found" /\ req.op = "schedule_session"
        /\ matches_collection' =
               [matches_collection EXCEPT ![req.target].sessions = @ + 1]
        /\ requests' = [requests EXCEPT ![c] = Done(req, "", "200")]
        /\ UNCHANGED <<users, catalog, em, fp, resp, index, service>>

NextMatches ==
    \/ \E c \in Connections, i \in 1..Len(users), match_type \in CreateTypes :
         \E mentee_id \in {users[Len(users)].id, NewUserDocument.id} :
           CreateMatch(c, i, mentee_id, match_type)
    \/ \E c \in Connections, i \in 1..Len(users) :
         \E target \in 1..(Len(matches_collection) + 1) :
           \/ Receive(c, "accept_match", i, target)
           \/ Receive(c, "decline_match", i, target)
           \/ /\ target \in 1..Len(matches_collection) =>
                    matches_collection[target].sessions < MaxSessions
              /\ Receive(c, "schedule_session", i, target)
    \/ \E c \in Connections : AcceptMatch(c)
    \/ \E c \in Connections : DeclineMatch(c)
    \/ \E c \in Connections : ScheduleSessionFind(c)
    \/ \E c \in Connections : ScheduleSessionPush(c)

SpecMatches == InitRoutes /\ [][NextMatches]_vars

\* POST /study-groups by users[i]: the creator is the first member
CreateStudyGroup(c, i, max_members) ==
    /\ Idle(c)
    /\ matches_collection = <<>>
    /\ matches_collection' =
           <<[creator_id |-> users[i].id, member_ids |-> <<users[i].id>>,
              max_members |-> max_members, status |-> "active"]>>
    /\ requests' = [requests EXCEPT ![c] =
                       [pc |-> "done", op |-> "create_study_group",
                        user_id |-> users[i].id, target |-> max_members,
                        raised |-> "", status_code |-> "200"]]
    /\ UNCHANGED <<users, catalog, em, fp, resp, index, service>>

\* join_study_group up to its second await: find_one, then the three checks
\* on the document it returned
JoinStudyGroupFind(c) ==
    LET req == requests[c]
        out == join_checks(matches_collection, req.target, req.user_id)
    IN  /\ req.pc = "received" /\ req.op = "join_study_group"
        /\ requests' = [requests EXCEPT ![c] =
                           IF out[2] = "" THEN [req EXCEPT !.pc = "checked"]
                           ELSE Done(req, out[1], out[2])]
        /\ UNCHANGED <<users, catalog, em, fp, resp, index, matches_collection, service>>

\* the $push of join_study_group and the response
JoinStudyGroupPush(c) ==
    LET req == requests[c]
    IN  /\ req.pc = "checked" /\ req.op = "join_study_group"
        /\ matches_collection' =
               [matches_collection EXCEPT ![req.target].member_ids = Append(@, req.user_id)]
        /\ requests' = [requests EXCEPT ![c] = Done(req, "", "200")]
        /\ UNCHANGED <<users, catalog, em, fp, resp, index, service>>

NextGroups ==
    \/ \E c \in Connections, i \in 1..Len(users), max_members \in 1..MaxMembers :
           CreateStudyGroup(c, i, max_members)
    \/ \E c \in Connections, i \in 1..Len(users) :
         \E target \in 1..(Len(matches_collection) + 1) :
           Receive(c, "join_study_group", i, target)
    \/ \E c \in Connections : JoinStudyGroupFind(c)
    \/ \E c \in Connections : JoinStudyGroupPush(c)

SpecGroups == InitRoutes /\ [][NextGroups]_vars

----------------------------------------------------------------------------
(* The feature vectors of the two recommenders *)

\* the keys of field_mapping in the order of the dictionary; the code of a
\* key is its position
field_mapping ==
    <<"computer science", "mathematics", "physics", "chemistry", "biology",
      "psychology", "business", "engineering", "literature", "history">>

\* key in field.lower(), on the field strings of the model
KeyInField(key, field) ==
    <<key, field>> \in {<<"computer science", "Computer Science">>,
                        <<"physics", "astrophysics">>,
                        <<"mathematics", "mathematics and physics">>,
                        <<"physics", "mathematics and physics">>}

\* the code of the first key found in the field, 0 if there is none
field_code(field) ==
    LET hits == {k \in 1..Len(field_mapping) : KeyInField(field_mapping[k], field)}
    IN  IF hits = {} THEN 0 ELSE CHOOSE k \in hits : \A l \in hits : k <= l

\* user.get(key, default)
Get(user, key, default) == IF key \in DOMAIN user THEN user[key] ELSE default

\* prepare_user_features without its activity metrics
prepare_eleven_columns(users_data) ==
    [k \in 1..Len(users_data) |->
        LET user == users_data[k]
        IN  <<level_mapping(user.academic_level), field_code(user.field_of_study),
              Flag("visual" \in user.learning_preferences),
              Flag("auditory" \in user.learning_preferences),
              Flag("kinesthetic" \in user.learning_preferences),
              Flag("reading" \in user.learning_preferences),
              Cardinality(user.interests), Cardinality(user.strengths),
              Cardinality(user.weaknesses), user.points, user.level>>]

\* RecommendationModel.prepare_user_features: the feature matrix, one row per
\* user; avg_rating in tenths (default 3.0)
prepare_user_features(users_data) ==
    [k \in 1..Len(users_data) |->
        LET user == users_data[k]
        IN  <<level_mapping(user.academic_level), field_code(user.field_of_study),
              Flag("visual" \in user.learning_preferences),
              Flag("auditory" \in user.learning_preferences),
              Flag("kinesthetic" \in user.learning_preferences),
              Flag("reading" \in user.learning_preferences),
              Cardinality(user.interests), Cardinality(user.strengths),
              Cardinality(user.weaknesses), user.points, user.level,
              Get(user, "session_count", 0), Get(user, "avg_rating", 30)>>]

\* MLService._extract_single_user_features of the backend
extract_single_user_features(user_profile) ==
    [k \in 1..1 |-> extract_user_features(user_profile)][1]

\* profiles with the fields of field_mapping and with activity metrics
EncodeProfiles ==
    Profiles
    \cup {[BaseProfile EXCEPT !.field_of_study = f] :
             f \in {"Computer Science", "astrophysics", "mathematics and physics"}}
    \cup {[MentorProfile EXCEPT !.points = 150, !.level = 2]
             @@ [session_count |-> 4, avg_rating |-> 45]}

InitEncode ==
    /\ NothingTrained
    /\ resp = NoResp
    /\ users \in {<<[p EXCEPT !.id = 1], [BaseProfile EXCEPT !.id = 2]>> : p \in EncodeProfiles}

\* ml package: the row of users[i] in the matrix train_user_similarity_model
\* builds from the user list, and the query vector recommend_users builds
PrepareUserFeatures(i) ==
    /\ resp' = [op |-> "prepare_user_features", user_id |-> users[i].id,
                corpus_row |-> prepare_user_features(users)[i],
                query_row |-> prepare_user_features(<<users[i]>>)[1]]
    /\ UNCHANGED <<users, catalog, em, fp, index, matches_collection, requests, service>>

\* backend: the row of users[i] in the list train_user_recommender builds,
\* and the query vector of recommend_users
ExtractUserFeatures(i) ==
    /\ resp' = [op |-> "extract_user_features", user_id |-> users[i].id,
                corpus_row |-> [k \in 1..Len(users) |-> extract_user_features(users[k])][i],
                query_row |-> extract_single_user_features(users[i])]
    /\ UNCHANGED <<users, catalog, em, fp, index, matches_collection, requests, service>>

NextEncode ==
    \/ \E i \in 1..Len(users) : PrepareUserFeatures(i)
    \/ \E i \in 1..Len(users) : ExtractUserFeatures(i)

SpecEncode == InitEncode /\ [][NextEncode]_vars

----------------------------------------------------------------------------
(* calculate_field_alignment on every pair of field strings *)

AlignFields ==
    {"", "physics", "Physics", "astrophysics", "mathematics", "law", "statistics",
     "data science", "Data Science", "computer science"}

InitFields ==
    /\ users \in {<<[id |-> 1, interests |-> <<>>, weaknesses |-> <<>>,
                     field_of_study |-> f, academic_level |-> "graduate"]>> :
                     f \in AlignFields}
    /\ catalog \in {<<[id |-> 1, expertise_areas |-> <<>>, field_of_study |-> f,
                       years_experience |-> 0]>> : f \in AlignFields}
    /\ em = NewExpertModel
    /\ fp = NewFeedbackPredictor
    /\ NoRoutes
    /\ resp = NoResp
    /\ rm = NewRecommendationModel
    /\ model_status = FALSE
    /\ topic_trained = FALSE
    /\ brm = NewRecommendationModel
    /\ user_recommender = NewUserRecommender
    /\ service = "ml"

\* expert_matching_model.calculate_field_alignment(users[1], catalog[1])
CalculateFieldAlignment ==
    /\ resp' = [op |-> "calculate_field_alignment",
                value |-> calculate_field_alignment(users[1], catalog[1])]
    /\ UNCHANGED <<users, catalog, em, fp, index, matches_collection, requests, service>>

NextFields == CalculateFieldAlignment

SpecFields == InitFields /\ [][NextFields]_vars

----------------------------------------------------------------------------
(* The pairwise scorer on the match types create_match passes through *)

NextAnyType == \E mt \in MatchTypes \cup CreateTypes : CalculateMatchScore(mt)

SpecAnyType == InitScore /\ [][NextAnyType]_vars

----------------------------------------------------------------------------
(* Properties of the pairwise scorer *)

Scored == resp.op = "calculate_match_score"

InUnit(x) == x >= 0 /\ x <= UNIT

\* the weights as the design declares them, in hundredths
DeclaredWeights(mt) ==
    IF mt = "mentor_mentee" THEN <<40, 20, 20, 20>>
    ELSE IF mt = "peer" THEN <<30, 25, 25, 20>>
    ELSE <<25, 30, 25, 20>>

\* C1: for every pair of profiles and each of the three match types a
\* MatchScore is returned whose four components lie in [0,1], whose
\* overall_score is the sum of the components weighted with the declared
\* weights of the match type (which sum to 1), and whose overall_score lies
\* in [0,1].
C1_ScoreInRange ==
    Scored =>
        /\ resp.score.error = ""
        /\ InUnit(resp.score.skill_compatibility)
        /\ InUnit(resp.score.schedule_compatibility)
        /\ InUnit(resp.score.learning_style_compatibility)
        /\ InUnit(resp.score.topic_relevance)
        /\ LET w == DeclaredWeights(resp.match_type)
           IN  /\ w[1] + w[2] + w[3] + w[4] = 100
               /\ resp.score.overall_score =
                      w[1] * resp.score.skill_compatibility
                      + w[2] * resp.score.schedule_compatibility
                      + w[3] * resp.score.learning_style_compatibility
                      + w[4] * resp.score.topic_relevance
        /\ resp.score.overall_score >= 0
        /\ resp.score.overall_score <= ONE

\* C9: schedule is 0.5 when either availability map is empty, learning
\* style is 0.5 when either preference set is empty, topic relevance is 0.5
\* when either text is empty; the three functions return these values
\* (they raise nothing).
C9_NeutralDefaults ==
    Scored =>
        /\ (DOMAIN users[1].availability = {} \/ DOMAIN users[2].availability = {})
               => resp.fields.schedule_compatibility = UNIT \div 2
        /\ (users[1].learning_preferences = {} \/ users[2].learning_preferences = {})
               => resp.fields.learning_style_compatibility = UNIT \div 2
        /\ (TextEmpty(users[1]) \/ TextEmpty(users[2]))
               => resp.fields.topic_relevance = UNIT \div 2

\* an empty profile scored against a filled-in one: all three defaults apply
C9_Witness ==
    /\ Scored
    /\ DOMAIN users[1].availability = {} /\ DOMAIN users[2].availability # {}
    /\ users[1].learning_preferences = {} /\ users[2].learning_preferences # {}
    /\ TextEmpty(users[1]) /\ ~TextEmpty(users[2])
    /\ resp.fields.schedule_compatibility = UNIT \div 2
    /\ resp.fields.learning_style_compatibility = UNIT \div 2
    /\ resp.fields.topic_relevance = UNIT \div 2

\* C10: the peer skill score, the learning-style score and the topic
\* relevance computed for (A, B) are those computed for (B, A).
C10_SwapSymmetric ==
    Scored =>
        /\ resp.match_type = "peer" =>
               resp.fields.skill_compatibility =
                   calculate_skill_compatibility(users[2], users[1], "peer")
        /\ resp.fields.learning_style_compatibility =
               calculate_learning_style_compatibility(users[2], users[1])
        /\ resp.fields.topic_relevance = calculate_topic_relevance(users[2], users[1])

\* a peer score of 1/3 for two users with different strengths and weaknesses
C10_Witness ==
    /\ Scored
    /\ resp.match_type = "peer"
    /\ users[1].strengths # users[2].strengths
    /\ Cardinality(users[1].weaknesses) # Cardinality(users[2].weaknesses)
    /\ resp.fields.skill_compatibility = Ratio(1, 3)

C12_SkillFormulas ==
    Scored =>
        LET a == users[1]
            b == users[2]
            x == resp.fields.skill_compatibility
        IN  /\ resp.match_type = "mentor_mentee" =>
                  IF a.weaknesses = {} THEN x = 0
                  ELSE x * Cardinality(a.weaknesses)
                           = UNIT * Cardinality(b.strengths \cap a.weaknesses)
            /\ resp.match_type = "peer" =>
                  IF a.weaknesses = {} /\ b.weaknesses = {} THEN 2 * x = UNIT
                  ELSE x * (Cardinality(a.weaknesses) + Cardinality(b.weaknesses))
                           = UNIT * (Cardinality(a.strengths \cap b.weaknesses)
                                     + Cardinality(b.strengths \cap a.weaknesses))
            /\ resp.match_type = "study_partner" =>
                  IF a.interests = {} /\ b.interests = {} THEN x = 0
                  ELSE x * Cardinality(a.interests \cup b.interests)
                           = UNIT * Cardinality(a.interests \cap b.interests)
            /\ (/\ resp.match_type = "mentor_mentee"
                /\ a.weaknesses = {"python", "stats"}
                /\ b.strengths = {"stats", "sql"}) => 2 * x = UNIT
            /\ (/\ resp.match_type = "study_partner"
                /\ a.interests = {"python", "stats"}
                /\ b.interests = {"python", "sql"}) => 3 * x = UNIT

\* the mentor_mentee example: weaknesses {python, stats} against strengths
\* {stats, sql} scored 1/2
C12_Witness ==
    /\ Scored
    /\ resp.match_type = "mentor_mentee"
    /\ users[1].weaknesses = {"python", "stats"}
    /\ users[2].strengths = {"stats", "sql"}
    /\ 2 * resp.fields.skill_compatibility = UNIT

----------------------------------------------------------------------------
(* Properties of the candidate search *)

Found == resp.op = "find_potential_matches" /\ resp.error = ""

UserById(id) == users[CHOOSE i \in 1..Len(users) : users[i].id = id]

\* the minimum of the flow a match type is dispatched to, as declared
FlowMinimum(mt) == IF mt = "peer" THEN 40 * UNIT ELSE 30 * UNIT

\* C5: every candidate find_potential_matches returns carries its own
\* overall score (not a zeroed one) and that score is not below the minimum
\* of the flow, 0.3 for mentor and study partner and 0.4 for peer.
C5_NoSubThreshold ==
    Found =>
        \A k \in 1..Len(resp.matches) :
            /\ resp.matches[k].score >= FlowMinimum(resp.match_type)
            /\ resp.matches[k].score =
                   match_score_fields(UserById(resp.user_id), UserById(resp.matches[k].id),
                                      resp.match_type).overall_score

\* a mentor search that returns a mentor while a candidate of the cursor
\* scored below 0.3 and was dropped
C5_Witness ==
    /\ Found
    /\ resp.match_type = "mentor_mentee"
    /\ Len(resp.matches) = 1
    /\ resp.limit = 2
    /\ \E i \in 1..Len(users) :
           /\ mentor_filter(UserById(resp.user_id), users[i])
           /\ match_score_fields(UserById(resp.user_id), users[i],
                                 "mentor_mentee").overall_score < 30 * UNIT

\* C6: the matches are listed in non-increasing score order, and of two
\* matches with equal score the one with the smaller id comes first.
C6_RankedWithIdTieBreak ==
    Found =>
        \A k, l \in 1..Len(resp.matches) :
            k < l =>
                /\ resp.matches[k].score >= resp.matches[l].score
                /\ resp.matches[k].score = resp.matches[l].score
                       => resp.matches[k].id < resp.matches[l].id

\* the part of C6 the code keeps: non-increasing score order
C6_ScoreOrder ==
    Found =>
        \A k, l \in 1..Len(resp.matches) :
            k < l => resp.matches[k].score >= resp.matches[l].score

----------------------------------------------------------------------------
(* Properties of the recommenders *)

QueryAfterShortTrain == resp.op = "get_user_recommendations" /\ resp.after_short_train

Consistent(m) ==
    /\ m.model.fitted /\ m.scaler.fitted /\ m.user_features.present /\ m.user_ids.present
    /\ m.model.rows = m.scaler.corpus
    /\ m.model.rows = m.user_features.corpus
    /\ m.model.rows = m.user_ids.ids

QueryOps ==
    {"get_user_recommendations", "get_hybrid_recommendations", "recommend_users",
     "find_ml_recommendations", "predict_topic"}

C7_ResultExcludesSelf ==
    /\ resp.op = "get_user_recommendations" => resp.user_id \notin SeqRange(resp.ml)
    /\ resp.op = "get_hybrid_recommendations" => resp.user_id \notin SeqRange(resp.ids)
    /\ resp.op = "find_ml_recommendations" => resp.user_id \notin SeqRange(resp.ids)
    /\ resp.op = "recommend_users" =>
          \A k \in 1..Len(resp.rows) :
              user_recommender.ids[resp.rows[k].user_index + 1] # resp.user_id

ItemIds(items) == [k \in 1..Len(items) |-> items[k].id]

\* the ids the rule-based path has for the request of the response
RuleBasedIds ==
    LET pool == SubSeq(users, 1, Len(resp.pool))
    IN  SeqRange(ItemIds(rule_based_user_matching(UserById(resp.user_id), pool, Len(pool))))

\* C8 as stated: an answer of the k-NN path on a trained index has no id
\* twice and at most k items, keeps every id of the ML result, and when it
\* has fewer than k items it holds every id the rule-based path has for the
\* request.
C8_MergedAndFilled ==
    /\ (resp.op = "get_user_recommendations" /\ resp.path = "knn" /\ Consistent(rm)) =>
          LET ids == ItemIds(resp.items)
          IN  /\ \A a, b \in 1..Len(ids) : a # b => ids[a] # ids[b]
              /\ Len(ids) <= resp.k
              /\ SeqRange(resp.ml) \subseteq SeqRange(ids)
              /\ Len(ids) < resp.k => RuleBasedIds \subseteq SeqRange(ids)
    /\ (resp.op = "get_hybrid_recommendations" /\ Consistent(rm)) =>
          /\ \A a, b \in 1..Len(resp.ids) : a # b => resp.ids[a] # resp.ids[b]
          /\ Len(resp.ids) <= resp.k
          /\ Len(resp.ids) < resp.k => RuleBasedIds \subseteq SeqRange(resp.ids)

----------------------------------------------------------------------------
(* Properties of the rule-based scorer *)

RuleAnswered == resp.op = "rule_based_user_matching"

\* the score of the claim, in tenths
ClaimedTenths(u, c) ==
    4 * Cardinality(u.interests \cap c.interests)
    + (IF u.field_of_study # "" /\ c.field_of_study # ""
          /\ IsSubstring(u.field_of_study, c.field_of_study) THEN 3 ELSE 0)
    + (IF u.academic_level = c.academic_level THEN 2
       ELSE IF level_mapping(u.academic_level) - level_mapping(c.academic_level) \in {-1, 1}
       THEN 1 ELSE 0)
    + (IF c.points > 100 THEN 1 ELSE 0)

\* the candidates of the pool other than the querying user
OtherCandidates == {j \in 1..Len(users) : users[j].id # resp.user_id}

\* the items are k candidates out of the set S, with their claimed scores, and
\* no candidate of S left out scores higher than one returned
TopKOf(S) ==
    LET u == UserById(resp.user_id)
        ids == SeqRange(ItemIds(resp.items))
    IN  /\ Len(resp.items) = Min(resp.k, Cardinality(S))
        /\ Cardinality(ids) = Len(resp.items)
        /\ ids \subseteq {users[j].id : j \in S}
        /\ \A n \in 1..Len(resp.items) :
               resp.items[n].score \div 2 = ClaimedTenths(u, UserById(resp.items[n].id))
        /\ \A j \in S : users[j].id \notin ids =>
               \A n \in 1..Len(resp.items) :
                   ClaimedTenths(u, users[j]) <= resp.items[n].score \div 2

\* C13 as stated: the rule-based result is the k highest-scoring of all
\* candidates of the pool other than the querying user, each scored 0.4 per
\* shared interest + 0.3 for a field match + 0.2 for equal levels (0.1 for
\* adjacent ones) + 0.1 for more than 100 points.
C13_TopKOfPool == RuleAnswered => TopKOf(OtherCandidates)

\* C13, amended: the result is the k highest-scoring of the candidates whose
\* score is positive, in non-increasing score order; a candidate scoring 0 is
\* never returned, so the result can be shorter than k and than the pool.
C13_TopKOfPositive ==
    RuleAnswered =>
        /\ TopKOf({j \in OtherCandidates :
                      ClaimedTenths(UserById(resp.user_id), users[j]) > 0})
        /\ \A n \in 1..Len(resp.items) : resp.items[n].score > 0
        /\ \A m, n \in 1..Len(resp.items) :
               m < n => resp.items[m].score >= resp.items[n].score

\* one candidate out of two with a positive score was returned for k = 1,
\* a third candidate scores 0
C13_Witness ==
    /\ RuleAnswered
    /\ resp.k = 1
    /\ Len(resp.items) = 1
    /\ \E a, b, c \in OtherCandidates :
           LET u == UserById(resp.user_id)
           IN  /\ a # b
               /\ ClaimedTenths(u, users[a]) > ClaimedTenths(u, users[b])
               /\ ClaimedTenths(u, users[b]) > 0
               /\ ClaimedTenths(u, users[c]) = 0
               /\ b < a


----------------------------------------------------------------------------
(* Properties of the resource ranker *)

ResourcesRanked == resp # NoResp /\ resp.op = "recommend_learning_resources"

\* the 1-based position of a resource in the returned list, 0 when it is absent
RankOf(id) ==
    IF \E k \in 1..Len(resp.items) : resp.items[k].resource_id = id
    THEN CHOOSE k \in 1..Len(resp.items) : resp.items[k].resource_id = id
    ELSE 0

Wanted == users[1].interests \cup users[1].weaknesses

\* C14 as stated: a resource all of whose topics (at least one) the user
\* wants is ranked above a resource none of whose topics the user wants,
\* whatever the ratings, popularity scores and levels are: whenever the
\* second is returned, the first is returned at an earlier position.
C14_FullOverlapRanksFirst ==
    ResourcesRanked =>
        \A a, b \in 1..Len(catalog) :
            ( /\ catalog[a].topics # {}
              /\ catalog[a].topics \subseteq Wanted
              /\ catalog[b].topics \cap Wanted = {}
              /\ RankOf(catalog[b].id) # 0 )
            => ( /\ RankOf(catalog[a].id) # 0
                 /\ RankOf(catalog[a].id) < RankOf(catalog[b].id) )


----------------------------------------------------------------------------
(* Properties of the expert matching model *)

Matched == resp # NoResp /\ resp.op = "find_matches"

\* C15 as stated: for a trained expert model every entry of find_matches has
\* match_score = 0.40 interest_overlap + 0.30 text_similarity
\* + 0.20 field_alignment + 0.10 experience_compatibility of its reported
\* breakdown, match_score lies in [0,1], the list is in non-increasing
\* match_score order with at most top_k entries, and each entry carries the
\* interests of the student found among the expert's expertise areas.
C15_WeightedScoreInUnit ==
    (Matched /\ em.is_trained) =>
        /\ Len(resp.items) <= resp.k
        /\ \A a, b \in 1..Len(resp.items) :
              a < b => resp.items[a].match_score >= resp.items[b].match_score
        /\ \A a \in 1..Len(resp.items) :
              LET it == resp.items[a]
                  bd == it.score_breakdown
                  expert == CHOOSE e \in SeqRange(em.expert_profiles) : e.id = it.expert_id
              IN  /\ it.match_score = 40 * bd.interest_overlap + 30 * bd.text_similarity
                                        + 20 * bd.field_alignment
                                        + 10 * bd.experience_compatibility
                  /\ it.match_score >= 0
                  /\ it.match_score <= ONE
                  /\ it.matched_interests = SeqRange(users[1].interests)
                                              \cap SeqRange(expert.expertise_areas)


----------------------------------------------------------------------------
(* Properties of the classifiers *)

\* C16 as stated: for an empty or whitespace-only text, and when the model is
\* not trained at the call, the topic classifier answers "Other" with
\* confidence 0 and the feedback classifier answers sentiment "neutral" and
\* quality "average" with confidence 0, and no exception reaches the caller.
C16_DefaultsOnBlankOrUntrained ==
    /\ (resp.op = "predict_topic" /\ (Blank(resp.text) \/ resp.trained)) =>
          /\ resp.error = ""
          /\ resp.label = "Other"
          /\ resp.confidence = "0.0"
    /\ (resp.op = "predict_sentiment" /\ (Blank(resp.text) \/ ~resp.fitted)) =>
          /\ resp.label = "neutral"
          /\ resp.confidence = 0
    /\ (resp.op = "predict_quality" /\ (Blank(resp.text) \/ ~resp.fitted)) =>
          /\ resp.label = "average"
          /\ resp.confidence = 0

\* C17 as stated: analyze_feedback_comprehensive with an empty text and no
\* numerical rating returns sentiment "neutral", quality "average" and
\* overall_score 3.0.
C17_EmptyFeedbackScoresThree ==
    ( /\ resp.op = "analyze_feedback_comprehensive"
      /\ resp.text = ""
      /\ resp.rating = "None" )
    => ( /\ resp.sentiment = "neutral"
         /\ resp.quality = "average"
         /\ resp.overall_score = 300 )


----------------------------------------------------------------------------
(* Properties of the degraded paths *)

\* the returned list shows its strategy: it has entries and each of them has
\* a recommendation_type
Tagged(list) ==
    /\ list # <<>>
    /\ \A k \in 1..Len(list) : "recommendation_type" \in DOMAIN list[k]

\* C18 as stated: whenever a degraded path answers a user-recommendation
\* query (the rule-based scorer for an untrained index, a lazy training run
\* that failed, the simple recommender or nothing in place of the advanced
\* model), the returned value carries a strategy tag, also when the list is
\* empty.
C18_DegradedPathTagged ==
    /\ ( /\ resp.op = "get_user_recommendations"
         /\ resp.path = "rule_based" \/ (resp.trained /\ ~model_status) )
       => Tagged(resp.items)
    /\ (resp.op = "recommend_users" /\ resp.path \in {"simple", "none"})
       => Tagged(resp.rows)


----------------------------------------------------------------------------
(* Properties of failed training runs *)

\* C19 as stated: a training call that returns false on a Trained index
\* leaves the model, the stored vectors, the ids and the scaler statistics
\* exactly as the last successful run stored them.
C19_FailedTrainKeepsState ==
    [][ ( /\ resp'.op = "train_recommendation_model"
          /\ ~resp'.ok
          /\ Consistent(rm) )
        => rm' = rm ]_vars


----------------------------------------------------------------------------
(* Properties of the training entry points *)

\* C20 as stated: a training call with at least 3 well-formed users returns
\* true and leaves the index trained on exactly that corpus, through
\* RecommendationModel.train_user_similarity_model and through the backend's
\* train_user_recommender alike, and a k-NN answer holds only ids of the
\* corpus of the most recent training run.
C20_TrainAcceptsThree ==
    /\ ( /\ resp.op = "train_recommendation_model"
         /\ resp.size >= MinTrainUsers
         /\ resp.fault = "none" )
       => ( /\ resp.ok
            /\ Consistent(rm)
            /\ rm.user_ids.ids = IdsOf(SubSeq(users, 1, resp.size)) )
    /\ ( /\ resp.op = "train_ml_models"
         /\ Len(ActiveUsers(users)) >= MinTrainUsers
         /\ resp.simple_fault = "none" )
       => ( /\ resp.simple_recommendation
            /\ user_recommender.fitted
            /\ user_recommender.ids = IdsOf(ActiveUsers(users)) )
    /\ (resp.op = "get_user_recommendations" /\ resp.path = "knn")
       => SeqRange(resp.ml) \subseteq SeqRange(rm.user_ids.ids)

----------------------------------------------------------------------------
(* Properties of find_ml_recommendations under a changing collection *)

\* C21: every profile find_ml_recommendations returns is the profile of the
\* user whose feature row the recommender matched, whatever registrations
\* and status updates happened since the recommender was trained
C21_IndexResolvedOnTrainingList ==
    (resp.op = "find_ml_recommendations" /\ resp.path = "simple")
        => resp.ids = resp.matched

----------------------------------------------------------------------------
(* Properties of recommend_users with exclusions *)

\* the corpus users that are neither the querying user nor excluded
EligibleIds ==
    {id \in SeqRange(rm.user_ids.ids) : id # resp.user_id /\ id \notin resp.exclude_ids}

\* C22: on an index stored by one completed training run, recommend_users
\* returns exactly min(k, E) results, E the number of corpus users that are
\* neither the querying user nor excluded
C22_ExactlyMinOfKAndEligible ==
    (resp.op = "rm_recommend_users" /\ Consistent(rm))
        => Len(resp.ids) = Min(resp.k, Cardinality(EligibleIds))

----------------------------------------------------------------------------
(* Properties of the match routes *)

\* C23: whatever the interleaving of join_study_group requests, a group's
\* member_ids holds at most max_members entries and no user twice
C23_GroupWithinCapacityNoDuplicates ==
    \A g \in 1..Len(matches_collection) :
        IsGroup(matches_collection[g]) =>
            LET member_ids == matches_collection[g].member_ids
            IN  /\ Len(member_ids) <= matches_collection[g].max_members
                /\ \A a, b \in 1..Len(member_ids) :
                       a # b => member_ids[a] # member_ids[b]


StatusRequests == {"accept_match", "decline_match"}

\* the status an accept or decline request asks for
AskedStatus(op) == IF op = "accept_match" THEN "accepted" ELSE "declined"

\* connection c holds an accept or decline request that has been answered
Answered(c) == requests[c].pc = "done" /\ requests[c].op \in StatusRequests

\* in this step the handler of connection c runs its update and answers
Answers(c) ==
    /\ requests[c].pc = "received"
    /\ requests[c].op \in StatusRequests
    /\ requests'[c].pc = "done"

\* C24: the status of a match changes only from pending to accepted or to
\* declined, and only in the step of an accept or decline request of its
\* mentor or mentee, to the status that request asks for; a request that
\* meets a pending match of its caller takes effect and every other one
\* changes nothing, so of two requests in flight on one pending match exactly
\* the one whose update runs first takes effect
C24_StatusLeavesPendingOnce ==
    /\ [](\A m \in 1..Len(matches_collection) :
             Cardinality({c \in Connections :
                             /\ Answered(c)
                             /\ requests[c].target = m
                             /\ requests[c].status_code = "200"}) <= 1)
    /\ [][/\ \A m \in 1..Len(matches_collection) :
                matches_collection'[m].status # matches_collection[m].status =>
                    /\ matches_collection[m].status = "pending"
                    /\ \E c \in Connections :
                           /\ Answers(c)
                           /\ requests[c].target = m
                           /\ requests[c].user_id \in {matches_collection[m].mentor_id,
                                                       matches_collection[m].mentee_id}
                           /\ matches_collection'[m].status = AskedStatus(requests[c].op)
          /\ \A c \in Connections :
                Answers(c) =>
                    IF pending_match_of(matches_collection, requests[c].target,
                                        requests[c].user_id)
                    THEN /\ requests'[c].status_code = "200"
                         /\ matches_collection'[requests[c].target].status =
                                AskedStatus(requests[c].op)
                    ELSE /\ requests'[c].status_code # "200"
                         /\ matches_collection' = matches_collection]_vars

\* an accept and a decline of the two participants of one match have both
\* been answered: the accept took effect and the decline was turned down
C24_Witness ==
    /\ Answered("c1") /\ Answered("c2")
    /\ requests["c1"].op = "accept_match" /\ requests["c2"].op = "decline_match"
    /\ requests["c1"].target = requests["c2"].target
    /\ requests["c1"].target \in 1..Len(matches_collection)
    /\ requests["c1"].user_id = matches_collection[requests["c1"].target].mentor_id
    /\ requests["c2"].user_id = matches_collection[requests["c1"].target].mentee_id
    /\ requests["c1"].status_code = "200"
    /\ requests["c2"].status_code # "200"
    /\ matches_collection[requests["c1"].target].status = "accepted"

----------------------------------------------------------------------------
(* Properties of the threshold of the candidate search *)

\* the candidates of the cursor of the last search whose decimal overall
\* score equals the minimum of the flow (_find_mentors opens no cursor for a
\* user without weaknesses)
AtMinimum ==
    {i \in 1..Len(users) :
        /\ resp.match_type = "mentor_mentee" => UserById(resp.user_id).weaknesses # {}
        /\ cursor_filter(resp.match_type, UserById(resp.user_id), users[i])
        /\ match_score_fields(UserById(resp.user_id), users[i],
                              resp.match_type).overall_score = FlowMinimum(resp.match_type)}

\* C25: a candidate whose overall score equals the minimum of its flow is
\* kept for ranking: it is returned unless the limit cuts the list
C25_EqualToMinimumKept ==
    Found =>
        \/ Len(resp.matches) = resp.limit
        \/ \A i \in AtMinimum : \E k \in 1..Len(resp.matches) : resp.matches[k].id = users[i].id

----------------------------------------------------------------------------
(* Properties of the feature vectors *)

Encoded == resp.op \in {"prepare_user_features", "extract_user_features"}

\* the columns the statement lists, in its order
ListedColumns(user) ==
    <<level_mapping(user.academic_level), field_code(user.field_of_study),
      Flag("visual" \in user.learning_preferences),
      Flag("auditory" \in user.learning_preferences),
      Flag("kinesthetic" \in user.learning_preferences),
      Flag("reading" \in user.learning_preferences),
      Cardinality(user.interests), Cardinality(user.strengths),
      Cardinality(user.weaknesses), user.points, user.level>>

\* C26 as stated: the vector of a user is the eleven listed columns and
\* nothing else, for the corpus and for the query
C26_ElevenColumns ==
    Encoded =>
        /\ resp.query_row = ListedColumns(UserById(resp.user_id))
        /\ resp.corpus_row = resp.query_row

\* C26, amended: prepare_user_features yields the eleven listed columns
\* followed by session_count (default 0) and avg_rating (default 3.0); the
\* backend's _extract_user_features yields ten columns, level code, the
\* three skill counts, the four preference flags, points and level, without
\* a field code; each class uses its own encoding for corpus and query alike
C26_EncodingPerRecommender ==
    Encoded =>
        LET user == UserById(resp.user_id)
            listed == ListedColumns(user)
        IN  /\ resp.corpus_row = resp.query_row
            /\ resp.op = "prepare_user_features" =>
                   resp.query_row = listed \o <<Get(user, "session_count", 0),
                                                 Get(user, "avg_rating", 30)>>
            /\ resp.op = "extract_user_features" =>
                   resp.query_row = <<listed[1], listed[7], listed[8], listed[9],
                                      listed[3], listed[4], listed[5], listed[6],
                                      listed[10], listed[11]>>

\* a user with a known field and activity metrics was encoded for the ml
\* package
C26_Witness ==
    /\ resp.op = "prepare_user_features"
    /\ "session_count" \in DOMAIN UserById(resp.user_id)
    /\ Len(resp.query_row) > Len(ListedColumns(UserById(resp.user_id)))
    /\ resp.query_row[Len(resp.query_row)] # 30

----------------------------------------------------------------------------
(* Properties of the field alignment *)

Aligned == resp.op = "calculate_field_alignment"

\* the four values of the statement, on the lower-cased fields
FourValues(student_field, expert_field) ==
    IF student_field = expert_field THEN UNIT
    ELSE IF IsSubstring(student_field, expert_field)
              \/ IsSubstring(expert_field, student_field) THEN (UNIT * 8) \div 10
    ELSE IF FieldsRelated(student_field, expert_field) THEN (UNIT * 6) \div 10
    ELSE (UNIT * 3) \div 10

\* C27 as stated: the alignment is 1.0 for equal fields, otherwise 0.8 when
\* one field is a substring of the other, otherwise 0.6 when the table links
\* them, otherwise 0.3, and never another value
C27_FourValuesOnly ==
    Aligned =>
        resp.value = FourValues(Lower(users[1].field_of_study),
                                Lower(catalog[1].field_of_study))

\* C27, amended: the alignment is 0.5 when the student or the expert has no
\* field of study; otherwise, on the lower-cased fields, it is 1.0 for equal
\* fields, else 0.8 when one contains the other, else 0.6 when a key of the
\* table occurs in one and one of its related names in the other, else 0.3
C27_FiveValues ==
    Aligned =>
        resp.value =
            IF users[1].field_of_study = "" \/ catalog[1].field_of_study = ""
            THEN UNIT \div 2
            ELSE FourValues(Lower(users[1].field_of_study),
                            Lower(catalog[1].field_of_study))

\* an expert without a field of study was aligned with a student of physics
C27_Witness ==
    /\ Aligned
    /\ users[1].field_of_study = "Physics"
    /\ catalog[1].field_of_study = ""
    /\ 2 * resp.value = UNIT

----------------------------------------------------------------------------
(* Properties of the scorer on undeclared match types *)

\* C29: for a match type outside mentor_mentee, peer and study_partner the
\* skill score and the weights are those of one and the same declared type
C29_OneProfilePerType ==
    (Scored /\ resp.match_type \notin MatchTypes) =>
        \E t \in MatchTypes :
            /\ resp.fields.skill_compatibility =
                   calculate_skill_compatibility(users[1], users[2], t)
            /\ resp.fields.overall_score =
                   match_score_fields(users[1], users[2], t).overall_score

----------------------------------------------------------------------------
(* Properties of the schedule score *)

\* the share of one day present in both maps: 0 when no slot is common, in
\* particular when both slot lists are empty
DayShare(slots1, slots2) ==
    IF Max(Cardinality(slots1), Cardinality(slots2)) = 0 THEN 0
    ELSE (Cardinality(slots1 \cap slots2) * UNIT)
             \div Max(Cardinality(slots1), Cardinality(slots2))

\* C30: when both users have a non-empty availability map, the schedule
\* score is the sum over the days present in both maps of
\* |slots1 n slots2| / max(|slots1|, |slots2|), divided by the number of such
\* days; it is 0 when the maps share no day, a shared day with disjoint slots
\* contributes 0, and a shared day with two empty slot lists contributes 0
\* without a division by zero
C30_ScheduleOverCommonDays ==
    (Scored /\ DOMAIN users[1].availability # {} /\ DOMAIN users[2].availability # {}) =>
        LET a1 == users[1].availability
            a2 == users[2].availability
            common == DOMAIN a1 \cap DOMAIN a2
        IN  /\ resp.score.error = "" =>
                   resp.score.schedule_compatibility = resp.fields.schedule_compatibility
            /\ IF common = {}
               THEN resp.fields.schedule_compatibility = 0
               ELSE resp.fields.schedule_compatibility * Cardinality(common) =
                        SumOver([d \in common |-> DayShare(a1[d], a2[d])], common)

\* two shared days, one with empty slot lists on both sides and one where
\* one slot of two is common: the score is 1/4
C30_Witness ==
    /\ Scored
    /\ DOMAIN users[1].availability = Days /\ DOMAIN users[2].availability = Days
    /\ \E d \in Days : users[1].availability[d] = {} /\ users[2].availability[d] = {}
    /\ \E d \in Days : /\ Cardinality(users[1].availability[d] \cap users[2].availability[d]) = 1
                       /\ users[2].availability[d] = Slots
    /\ 4 * resp.fields.schedule_compatibility = UNIT

----------------------------------------------------------------------------
(* Properties of the rejections of the match routes *)

\* the requests a handler has answered after raising a 404 or a 400
Rejected == {c \in Connections : requests[c].pc = "done" /\ requests[c].raised \in {"404", "400"}}

\* C28: a request rejected by create_match, accept_match, decline_match or
\* schedule_session (mentee not found, match not pending, caller not a
\* participant) is answered with the very status the handler raised for it
C28_RejectionKeepsItsStatus ==
    \A c \in Rejected : requests[c].status_code = requests[c].raised

====
